---- MODULE Spec2Model ----
(***************************************************************************)
(* A model of gl-matrix-strict-types: the vec3, vec4 and quat cores, the   *)
(* module-level scratch buffers of quat.rotationTo and quat.sqlerp, and    *)
(* the f32-enforce / f64-enforce wrappers.                                 *)
(*                                                                         *)
(* Typed arrays are buffers in a heap (mem): a call names its buffers, so  *)
(* that out may be the very buffer an input is read from, and every        *)
(* function body is translated statement by statement, reads and writes    *)
(* in the order of the source.                                             *)
(*                                                                         *)
(* Numbers are exact: a number is <<n, p, t, d, 0>> and stands for         *)
(*     (n + p * (pi/2) + t * theta0) / d,    theta0 = acos(4/5),           *)
(* in lowest terms with d > 0.  1, pi and theta0 are linearly independent  *)
(* over the rationals, so equal numbers have equal representations.        *)
(* Math.sin, Math.cos and Math.acos are computed exactly on the angles     *)
(* p * (pi/2) + t * theta0, whose sines and cosines are rational, and on   *)
(* the odd multiples of pi/4, whose sines and cosines are +-sqrt(2)/2.     *)
(* The rounding of Float32Array / Float64Array storage is not modelled.    *)
(***************************************************************************)
EXTENDS Integers, Sequences, FiniteSets, TLC

\* mem is the heap: the elements of every buffer.  kind is the class of
\* every buffer.  pc is where the caller is: "idle" before a call, "done"
\* when a call has returned.  last is the call that has returned: what was
\* called on which buffers and scalars, the heap before it, and what it
\* returned or whether it threw.  frames are the invocations that overlap.
VARIABLES mem, kind, pc, last, frames

vars == <<mem, kind, pc, last, frames>>

----------------------------------------------------------------------------
(* Numbers *)

\* A number is <<n, p, t, d, f>>.  With f = 0 and d > 0 it is the real
\* x = (n + p*(pi/2) + t*theta0)/d; with f = 1 it is the square x*x of an
\* irrational x and with f = 2 the reciprocal 1/x of an irrational x (the
\* two forms Math.sqrt(x*x + 0 + 0) and Math.sin(r)/r pass through); with
\* f = 3 it is the rational multiple (n/d) * sqrt(2), n # 0; with f = 5 it
\* is the power e^(n/d) of e, n # 0, which the program only multiplies by 0
\* and by 1 where the arithmetic follows it.

\* A value that is NaN or +-Infinity in the program (a division by zero, an
\* arc cosine outside [-1, 1]); it propagates through every operation.
NonFinite == <<0, 0, 0, 0, 0>>

\* Infinity (s = 1) and -Infinity (s = -1) as a caller can store them in an
\* array.  They are ordered and compared as they are in the program, and
\* what is computed from them is Infinity, -Infinity or NonFinite.
Infinity(s) == <<s, 0, 0, 0, 4>>

\* A value the exact representation cannot express (a product of two
\* unrelated irrational numbers, the sine of an angle off the lattice, an
\* irrational square root).  Calls whose result would contain it are not
\* taken.
NaR == <<1, 0, 0, 0, 0>>

\* The arithmetic of the program is a family of functions on these tuples.
Nums == Int \X Int \X Int \X Int \X Int

IsNum(a) == a[4] > 0 /\ a[5] = 0

IsRat(a) == IsNum(a) /\ a[2] = 0 /\ a[3] = 0

IsIrr(a) == IsNum(a) /\ ~(a[2] = 0 /\ a[3] = 0)

IsSq(a) == a[5] = 1

IsInv(a) == a[5] = 2

IsRoot(a) == a[5] = 3

IsInf(a) == a[5] = 4

IsPow(a) == a[5] = 5

\* The numbers that < and <= order: all but NaN.
IsOrdered(a) == IsNum(a) \/ IsRoot(a) \/ IsInf(a)

Bad(a, b) == IF a = NonFinite \/ b = NonFinite THEN NonFinite ELSE NaR

AbsI(i) == IF i < 0 THEN -i ELSE i

RECURSIVE GCD(_, _)
GCD(a, b) == IF b = 0 THEN a ELSE GCD(b, a % b)

Mk(n, p, t, d) ==
  LET g == GCD(GCD(AbsI(n), AbsI(p)), GCD(AbsI(t), AbsI(d)))
      s == IF d < 0 THEN -1 ELSE 1
  IN <<s * (n \div g), s * (p \div g), s * (t \div g), s * (d \div g), 0>>

Rat(n, d) == Mk(n, 0, 0, d)

Num(n) == <<n, 0, 0, 1, 0>>

Zero == Num(0)

One == Num(1)

\* Math.PI
PI == <<0, 2, 0, 1, 0>>

\* theta0 = acos(4/5)
Theta0 == <<0, 0, 1, 1, 0>>

Form(a, f) == <<a[1], a[2], a[3], a[4], f>>

\* r * sqrt(2) for a rational r
Root(r) == IF r[1] = 0 THEN r ELSE Form(r, 3)

\* A number in a boolean position: 0 and NaN are false.
Truthy[a \in Nums] == a # Zero /\ a # NonFinite

\* a === b on numbers (NaN equals nothing)
Eq[a \in Nums, b \in Nums] == a # NonFinite /\ a = b

Neg[a \in Nums] ==
  IF IsNum(a) \/ IsInv(a) \/ IsRoot(a) \/ IsInf(a)
  THEN <<-a[1], -a[2], -a[3], a[4], a[5]>>
  ELSE IF IsSq(a) THEN NaR
  ELSE a

Add[a \in Nums, b \in Nums] ==
  IF IsInf(a) /\ IsOrdered(b) THEN IF IsInf(b) /\ a # b THEN NonFinite ELSE a
  ELSE IF IsInf(b) /\ IsOrdered(a) THEN b
  ELSE IF (IsSq(a) \/ IsRoot(a)) /\ b = Zero THEN a
  ELSE IF (IsSq(b) \/ IsRoot(b)) /\ a = Zero THEN b
  ELSE IF IsRoot(a) /\ IsRoot(b) THEN Root(Add[Form(a, 0), Form(b, 0)])
  ELSE IF ~(IsNum(a) /\ IsNum(b)) THEN Bad(a, b)
  ELSE LET g == GCD(a[4], b[4])
           ka == b[4] \div g
           kb == a[4] \div g
       IN Mk(a[1] * ka + b[1] * kb, a[2] * ka + b[2] * kb,
             a[3] * ka + b[3] * kb, a[4] * ka)

Sub[a \in Nums, b \in Nums] == Add[a, Neg[b]]

\* r * x for a rational r and a number x
Scale(r, x) ==
  LET g1 == GCD(AbsI(r[1]), x[4])
      g2 == GCD(GCD(AbsI(x[1]), AbsI(x[2])), GCD(AbsI(x[3]), r[4]))
      k1 == IF g1 = 0 THEN 1 ELSE g1
      rn == r[1] \div k1
      xd == x[4] \div k1
      rd == r[4] \div g2
  IN Mk(rn * (x[1] \div g2), rn * (x[2] \div g2), rn * (x[3] \div g2),
        rd * xd)

\* The rational k with x = k * y for irrational x and y, or NaR.
Ratio(x, y) ==
  LET k == IF y[2] # 0 THEN Mk(x[2] * y[4], 0, 0, y[2] * x[4])
           ELSE Mk(x[3] * y[4], 0, 0, y[3] * x[4])
  IN IF Scale(k, y) = x THEN k ELSE NaR

Mul[a \in Nums, b \in Nums] ==
  IF IsInf(a) /\ IsRat(b) THEN
       IF b = Zero THEN NonFinite
       ELSE IF b[1] < 0 THEN Infinity(-a[1]) ELSE a
  ELSE IF IsInf(b) /\ IsRat(a) THEN
       IF a = Zero THEN NonFinite
       ELSE IF a[1] < 0 THEN Infinity(-b[1]) ELSE b
  ELSE IF IsNum(a) /\ IsNum(b) THEN
       IF IsRat(a) THEN Scale(a, b)
       ELSE IF IsRat(b) THEN Scale(b, a)
       ELSE IF a = b THEN Form(a, 1)
       ELSE NaR
  ELSE IF IsInv(a) /\ IsNum(b) THEN
       IF b = Zero THEN Zero
       ELSE IF IsRat(b) THEN Form(Scale(Mk(b[4], 0, 0, b[1]), Form(a, 0)), 2)
       ELSE Ratio(b, Form(a, 0))
  ELSE IF IsInv(b) /\ IsNum(a) THEN
       IF a = Zero THEN Zero
       ELSE IF IsRat(a) THEN Form(Scale(Mk(a[4], 0, 0, a[1]), Form(b, 0)), 2)
       ELSE Ratio(a, Form(b, 0))
  ELSE IF (IsSq(a) /\ b = Zero) \/ (IsSq(b) /\ a = Zero) THEN Zero
  ELSE IF IsRoot(a) /\ IsRat(b) THEN Root(Scale(b, Form(a, 0)))
  ELSE IF IsRoot(b) /\ IsRat(a) THEN Root(Scale(a, Form(b, 0)))
  ELSE IF IsRoot(a) /\ IsRoot(b)
       THEN Scale(Num(2), Scale(Form(a, 0), Form(b, 0)))
  ELSE IF IsPow(a) /\ b \in {Zero, One} THEN IF b = Zero THEN Zero ELSE a
  ELSE IF IsPow(b) /\ a \in {Zero, One} THEN IF a = Zero THEN Zero ELSE b
  ELSE Bad(a, b)

\* a / b; a division by zero gives a non-finite value.
Div[a \in Nums, b \in Nums] ==
  IF IsRoot(a) /\ IsRat(b)
  THEN IF b = Zero THEN NonFinite
       ELSE Root(Scale(Mk(b[4], 0, 0, b[1]), Form(a, 0)))
  ELSE IF IsRoot(b) /\ IsRat(a)
  THEN Root(Scale(Mk(b[4], 0, 0, 2 * b[1]), a))
  ELSE IF IsRoot(a) /\ IsRoot(b)
  THEN Scale(Mk(b[4], 0, 0, b[1]), Form(a, 0))
  ELSE IF ~(IsNum(a) /\ IsNum(b)) THEN Bad(a, b)
  ELSE IF b = Zero THEN NonFinite
  ELSE IF IsRat(b) THEN Scale(Mk(b[4], 0, 0, b[1]), a)
  ELSE IF a = Zero THEN Zero
  ELSE IF IsRat(a) THEN Form(Scale(Mk(a[4], 0, 0, a[1]), b), 2)
  ELSE Ratio(a, b)

\* a/b < c/d for naturals a, c and positive b, d, by continued fractions
\* (no product of a numerator and a denominator is formed).
RECURSIVE LtFrac(_, _, _, _)
LtFrac(a, b, c, d) ==
  LET qa == a \div b
      qc == c \div d
      ra == a % b
      rc == c % d
  IN IF qa # qc THEN qa < qc
     ELSE IF rc = 0 THEN FALSE
     ELSE IF ra = 0 THEN TRUE
     ELSE LtFrac(d, rc, b, ra)

LtRat(a, b) ==
  IF a[1] < 0 /\ b[1] >= 0 THEN TRUE
  ELSE IF a[1] >= 0 /\ b[1] < 0 THEN FALSE
  ELSE IF a[1] >= 0 THEN LtFrac(a[1], a[4], b[1], b[4])
  ELSE LtFrac(-b[1], b[4], -a[1], a[4])

\* A rational within 10^-4 of a, used only to order irrational numbers.
Approx(a) ==
  IF IsRat(a) THEN a
  ELSE IF IsRoot(a) THEN Mk(a[1] * 14142, 0, 0, a[4] * 10000)
  ELSE Mk(a[1] * 10000 + a[2] * 15708 + a[3] * 6435, 0, 0, a[4] * 10000)

\* a < b; false as soon as an operand is not a finite number.
Lt[a \in Nums, b \in Nums] ==
  /\ IsOrdered(a)
  /\ IsOrdered(b)
  /\ a # b
  /\ IF IsInf(a) \/ IsInf(b) THEN a = Infinity(-1) \/ b = Infinity(1)
     ELSE LtRat(Approx(a), Approx(b))

Gt[a \in Nums, b \in Nums] == Lt[b, a]

Le[a \in Nums, b \in Nums] ==
  IsOrdered(a) /\ IsOrdered(b) /\ (a = b \/ Lt[a, b])

Ge[a \in Nums, b \in Nums] == Le[b, a]

\* Math.abs
Abs[a \in Nums] == IF Lt[a, Zero] THEN Neg[a] ELSE a

\* Math.min and Math.max of two numbers
Min2[a \in Nums, b \in Nums] ==
  IF ~(IsOrdered(a) /\ IsOrdered(b)) THEN Bad(a, b)
  ELSE IF Lt[b, a] THEN b ELSE a

Max2[a \in Nums, b \in Nums] ==
  IF ~(IsOrdered(a) /\ IsOrdered(b)) THEN Bad(a, b)
  ELSE IF Lt[a, b] THEN b ELSE a

\* The integer square root of a natural, or -1 when it is not a square.
RECURSIVE ISqrtFrom(_, _)
ISqrtFrom(n, k) ==
  IF k * k = n THEN k ELSE IF k * k > n THEN -1 ELSE ISqrtFrom(n, k + 1)

\* Math.sqrt
Sqrt[a \in Nums] ==
  IF IsSq(a) THEN Abs[Form(a, 0)]
  ELSE IF ~IsNum(a) THEN Bad(a, a)
  ELSE IF ~IsRat(a) THEN NaR
  ELSE IF a[1] < 0 THEN NonFinite
  ELSE LET n == ISqrtFrom(a[1], 0)
           d == ISqrtFrom(a[4], 1)
       IN IF n < 0 \/ d < 0 THEN NaR ELSE <<n, 0, 0, d, 0>>

\* The point <<x, y, d>> that stands for cos = x/d and sin = y/d of the angle
\* t * theta0, t >= 0: cos(theta0) = 4/5 and sin(theta0) = 3/5, and
\* cos(u + theta0) = cos(u)*4/5 - sin(u)*3/5,
\* sin(u + theta0) = sin(u)*4/5 + cos(u)*3/5.
RECURSIVE CosSinT(_)
CosSinT(t) ==
  IF t = 0 THEN <<1, 0, 1>>
  ELSE LET r == CosSinT(t - 1)
       IN <<4 * r[1] - 3 * r[2], 4 * r[2] + 3 * r[1], 5 * r[3]>>

\* The point r turned by k quarter turns.
Quarter(k, r) ==
  IF k = 0 THEN r
  ELSE IF k = 1 THEN <<-r[2], r[1], r[3]>>
  ELSE IF k = 2 THEN <<-r[1], -r[2], r[3]>>
  ELSE <<r[2], -r[1], r[3]>>

\* The point r mirrored in the x axis when t < 0.
Mirror(t, r) == IF t < 0 THEN <<r[1], -r[2], r[3]>> ELSE r

\* The point of the angle p * (pi/2) + t * theta0.
CosSin(p, t) == Quarter(p % 4, Mirror(t, CosSinT(AbsI(t))))

OnLattice(a) == IsNum(a) /\ a[1] = 0 /\ a[4] = 1

\* An odd multiple of pi/4
OnEighth(a) == IsNum(a) /\ a[1] = 0 /\ a[3] = 0 /\ a[4] = 2

\* sqrt(2)/2 with the sign of the cosine (i = 1) or the sine (i = 2) of
\* p * (pi/4), p odd.
Eighth(p, i) ==
  IF (i = 1 /\ p % 8 \in {1, 7}) \/ (i = 2 /\ p % 8 \in {1, 3})
  THEN <<1, 0, 0, 2, 3>> ELSE <<-1, 0, 0, 2, 3>>

\* The fraction r[i] / r[3].
Part(r, i) == Mk(r[i], 0, 0, r[3])

\* Math.cos
Cos[a \in Nums] ==
  IF ~IsNum(a) THEN Bad(a, a)
  ELSE IF OnEighth(a) THEN Eighth(a[2], 1)
  ELSE IF ~OnLattice(a) THEN NaR
  ELSE Part(CosSin(a[2], a[3]), 1)

\* Math.sin
Sin[a \in Nums] ==
  IF ~IsNum(a) THEN Bad(a, a)
  ELSE IF OnEighth(a) THEN Eighth(a[2], 2)
  ELSE IF ~OnLattice(a) THEN NaR
  ELSE Part(CosSin(a[2], a[3]), 2)

\* The largest multiple of theta0 in an angle that Math.acos or Math.atan2
\* returns.
MaxTheta == 4

Lattice == {<<0, p, t, 1, 0>> : p \in (-2)..2, t \in (-MaxTheta)..MaxTheta}

\* The angles within [0, pi]
AcosRange == {a \in Lattice : Le[Zero, a] /\ Le[a, PI]}

\* The angles within (-pi, pi]
AtanRange == {a \in Lattice : Lt[Neg[PI], a] /\ Le[a, PI]}

\* Math.acos
Acos[c \in Nums] ==
  IF c = <<1, 0, 0, 2, 3>> THEN <<0, 1, 0, 2, 0>>
  ELSE IF c = <<-1, 0, 0, 2, 3>> THEN <<0, 3, 0, 2, 0>>
  ELSE IF ~IsNum(c) THEN Bad(c, c)
  ELSE IF ~IsRat(c) THEN NaR
  ELSE IF Lt[c, Num(-1)] \/ Gt[c, One] THEN NonFinite
  ELSE IF \E a \in AcosRange : Cos[a] = c
       THEN CHOOSE a \in AcosRange : Cos[a] = c
       ELSE NaR

\* The angle whose cosine is c and whose sine is s.
Angle(c, s) ==
  IF \E a \in AtanRange : Cos[a] = c /\ Sin[a] = s
  THEN CHOOSE a \in AtanRange : Cos[a] = c /\ Sin[a] = s
  ELSE NaR

\* The angle of the direction (x, y), which is at the distance hyp of the
\* origin.
Direction(x, y, hyp) == Angle(Div[x, hyp], Div[y, hyp])

\* Math.atan2
Atan2[y \in Nums, x \in Nums] ==
  IF ~(IsNum(y) /\ IsNum(x)) THEN Bad(y, x)
  ELSE IF ~(IsRat(y) /\ IsRat(x)) THEN NaR
  ELSE IF y = Zero /\ x = Zero THEN Zero
  ELSE Direction(x, y, Sqrt[Add[Mul[x, x], Mul[y, y]]])

\* Math.exp: e^0 = 1; every other power of e is irrational, and is kept as
\* a power when the exponent is rational.
Exp[a \in Nums] ==
  IF ~IsNum(a) THEN Bad(a, a)
  ELSE IF a = Zero THEN One
  ELSE IF IsRat(a) THEN Form(a, 5)
  ELSE NaR

\* Math.log: log(1) = 0, log(0) = -Infinity, NaN below 0; every other
\* logarithm of a rational is irrational.
Log[a \in Nums] ==
  IF ~IsNum(a) THEN Bad(a, a)
  ELSE IF a = One THEN Zero
  ELSE IF Le[a, Zero] THEN NonFinite
  ELSE NaR

----------------------------------------------------------------------------
(* The heap of typed arrays *)

\* The callers' buffers: six of four elements (vec4 / quat), three of three
\* (vec3) and one of sixteen (mat4).
QuatBufs == {"q0", "q1", "q2", "q3", "q4", "q5"}

Vec3Bufs == {"v0", "v1", "v2"}

MatBufs == {"m0"}

UserBufs == QuatBufs \cup Vec3Bufs \cup MatBufs

\* The buffers that the closures of quat.rotationTo and quat.sqlerp hold.
ScratchBufs == {"tmpvec3", "xUnitVec3", "yUnitVec3", "temp1", "temp2"}

Buffers == UserBufs \cup ScratchBufs

\* The array with the elements of a tuple, indexed from 0.
Arr(s) == [i \in 0..(Len(s) - 1) |-> s[i + 1]]

V3(x, y, z) == Arr(<<Num(x), Num(y), Num(z)>>)

V4(x, y, z, w) == Arr(<<Num(x), Num(y), Num(z), Num(w)>>)

\* out[i] = x; a typed array ignores a write beyond its length.
Wr(h, out, i, x) ==
  IF i \in DOMAIN h[out] THEN [h EXCEPT ![out][i] = x] ELSE h

\* The heap h after the caller has stored the arrays of vals in its buffers.
Load(h, vals) ==
  [b \in DOMAIN h |-> IF b \in DOMAIN vals THEN vals[b] ELSE h[b]]

\* A number the arithmetic represents, NaN or an infinity.
IsValue(x) == IsOrdered(x) \/ IsPow(x) \/ x = NonFinite

\* No element of a buffer is beyond the representation.
Representable(h) ==
  {b \in DOMAIN h : \E i \in DOMAIN h[b] : ~IsValue(h[b][i])} = {}

\* The classes of the arrays a caller can pass.
Kinds == {"Float32Array", "Float64Array", "Array"}

----------------------------------------------------------------------------
(* The syntax of function bodies *)

\* Expressions: a literal, a local or parameter, a[i], -e, !e, a number
\* used as a condition ("ToBoolean"), e1 o e2,
\* Math.f(e), Math.f(e1, e2), c ? e1 : e2, f(args) and val instanceof C.
Lit(v) == <<"lit", v>>

V(x) == <<"var", x>>

Ix(a, i) == <<"ix", a, i>>

Un(o, e) == <<"un", o, e>>

Bin(o, e1, e2) == <<"bin", o, e1, e2>>

Math1(f, e) == <<"math1", f, e>>

Math2(f, e1, e2) == <<"math2", f, e1, e2>>

Cond(c, e1, e2) == <<"cond", c, e1, e2>>

Call(f, args) == <<"call", f, args>>

InstanceOf(x, c) == <<"instanceof", x, c>>

\* Statements: const / let x = e (or x = e), a[i] = e, if (c) s1 else s2,
\* f(args), return e, return f(args), throw, switch (x) with a break after
\* every case, and the default value of a parameter.
Let(x, e) == <<"let", x, e>>

Set(a, i, e) == <<"set", a, i, e>>

If(c, s1, s2) == <<"if", c, s1, s2>>

Do(f, args) == <<"do", f, args>>

Return(e) == <<"return", e>>

ReturnDo(f, args) == <<"returndo", f, args>>

Throw == <<"throw">>

Switch(x, cases, dflt) == <<"switch", x, cases, dflt>>

Default(x, v) == <<"default", x, v>>

\* A function: its parameters, what it returns ("void", "number" or
\* "boolean") and its body.
Fn(params, type, body) == [params |-> params, type |-> type, body |-> body]
----------------------------------------------------------------------------
(* Faulty variants of library functions: what a function would be after a  *)
(* plausible slip.  The properties at the end of the module tell each of   *)
(* them from the function it varies.                                       *)

\* vec3.cross reading its operands after it has begun to write out.
vec3_cross_unbuffered ==
  Fn(<<"out", "a", "b">>, "void",
    <<Set("out", 0, Bin("-", Bin("*", Ix("a", 1), Ix("b", 2)),
          Bin("*", Ix("a", 2), Ix("b", 1)))),
      Set("out", 1, Bin("-", Bin("*", Ix("a", 2), Ix("b", 0)),
          Bin("*", Ix("a", 0), Ix("b", 2)))),
      Set("out", 2, Bin("-", Bin("*", Ix("a", 0), Ix("b", 1)),
          Bin("*", Ix("a", 1), Ix("b", 0))))>>)

\* quat.fromEuler setting out to the identity before it looks at the order.
quat_fromEuler_cleared ==
  Fn(<<"out", "x", "y", "z", "order">>, "void",
    <<Default("order", "ZYX"),
      Let("halfToRad", Bin("/", Lit(PI), Lit(Num(360)))),
      Let("x", Bin("*", V("x"), V("halfToRad"))),
      Let("z", Bin("*", V("z"), V("halfToRad"))),
      Let("y", Bin("*", V("y"), V("halfToRad"))),
      Let("sx", Math1("sin", V("x"))),
      Let("cx", Math1("cos", V("x"))),
      Let("sy", Math1("sin", V("y"))),
      Let("cy", Math1("cos", V("y"))),
      Let("sz", Math1("sin", V("z"))),
      Let("cz", Math1("cos", V("z"))),
      Set("out", 0, Lit(Zero)),
      Set("out", 1, Lit(Zero)),
      Set("out", 2, Lit(Zero)),
      Set("out", 3, Lit(One)),
      Switch("order",
      [XYZ |->
        <<Set("out", 0, Bin("+", Bin("*", Bin("*", V("sx"), V("cy")),
            V("cz")), Bin("*", Bin("*", V("cx"), V("sy")), V("sz")))),
          Set("out", 1, Bin("-", Bin("*", Bin("*", V("cx"), V("sy")),
              V("cz")), Bin("*", Bin("*", V("sx"), V("cy")), V("sz")))),
          Set("out", 2, Bin("+", Bin("*", Bin("*", V("cx"), V("cy")),
              V("sz")), Bin("*", Bin("*", V("sx"), V("sy")), V("cz")))),
          Set("out", 3, Bin("-", Bin("*", Bin("*", V("cx"), V("cy")),
              V("cz")), Bin("*", Bin("*", V("sx"), V("sy")), V("sz"))))>>,
      XZY |->
        <<Set("out", 0, Bin("-", Bin("*", Bin("*", V("sx"), V("cy")),
            V("cz")), Bin("*", Bin("*", V("cx"), V("sy")), V("sz")))),
          Set("out", 1, Bin("-", Bin("*", Bin("*", V("cx"), V("sy")),
              V("cz")), Bin("*", Bin("*", V("sx"), V("cy")), V("sz")))),
          Set("out", 2, Bin("+", Bin("*", Bin("*", V("cx"), V("cy")),
              V("sz")), Bin("*", Bin("*", V("sx"), V("sy")), V("cz")))),
          Set("out", 3, Bin("+", Bin("*", Bin("*", V("cx"), V("cy")),
              V("cz")), Bin("*", Bin("*", V("sx"), V("sy")), V("sz"))))>>,
      YXZ |->
        <<Set("out", 0, Bin("+", Bin("*", Bin("*", V("sx"), V("cy")),
            V("cz")), Bin("*", Bin("*", V("cx"), V("sy")), V("sz")))),
          Set("out", 1, Bin("-", Bin("*", Bin("*", V("cx"), V("sy")),
              V("cz")), Bin("*", Bin("*", V("sx"), V("cy")), V("sz")))),
          Set("out", 2, Bin("-", Bin("*", Bin("*", V("cx"), V("cy")),
              V("sz")), Bin("*", Bin("*", V("sx"), V("sy")), V("cz")))),
          Set("out", 3, Bin("+", Bin("*", Bin("*", V("cx"), V("cy")),
              V("cz")), Bin("*", Bin("*", V("sx"), V("sy")), V("sz"))))>>,
      YZX |->
        <<Set("out", 0, Bin("+", Bin("*", Bin("*", V("sx"), V("cy")),
            V("cz")), Bin("*", Bin("*", V("cx"), V("sy")), V("sz")))),
          Set("out", 1, Bin("+", Bin("*", Bin("*", V("cx"), V("sy")),
              V("cz")), Bin("*", Bin("*", V("sx"), V("cy")), V("sz")))),
          Set("out", 2, Bin("-", Bin("*", Bin("*", V("cx"), V("cy")),
              V("sz")), Bin("*", Bin("*", V("sx"), V("sy")), V("cz")))),
          Set("out", 3, Bin("-", Bin("*", Bin("*", V("cx"), V("cy")),
              V("cz")), Bin("*", Bin("*", V("sx"), V("sy")), V("sz"))))>>,
      ZXY |->
        <<Set("out", 0, Bin("-", Bin("*", Bin("*", V("sx"), V("cy")),
            V("cz")), Bin("*", Bin("*", V("cx"), V("sy")), V("sz")))),
          Set("out", 1, Bin("+", Bin("*", Bin("*", V("cx"), V("sy")),
              V("cz")), Bin("*", Bin("*", V("sx"), V("cy")), V("sz")))),
          Set("out", 2, Bin("+", Bin("*", Bin("*", V("cx"), V("cy")),
              V("sz")), Bin("*", Bin("*", V("sx"), V("sy")), V("cz")))),
          Set("out", 3, Bin("-", Bin("*", Bin("*", V("cx"), V("cy")),
              V("cz")), Bin("*", Bin("*", V("sx"), V("sy")), V("sz"))))>>,
      ZYX |->
        <<Set("out", 0, Bin("-", Bin("*", Bin("*", V("sx"), V("cy")),
            V("cz")), Bin("*", Bin("*", V("cx"), V("sy")), V("sz")))),
          Set("out", 1, Bin("+", Bin("*", Bin("*", V("cx"), V("sy")),
              V("cz")), Bin("*", Bin("*", V("sx"), V("cy")), V("sz")))),
          Set("out", 2, Bin("-", Bin("*", Bin("*", V("cx"), V("cy")),
              V("sz")), Bin("*", Bin("*", V("sx"), V("sy")), V("cz")))),
          Set("out", 3, Bin("+", Bin("*", Bin("*", V("cx"), V("cy")),
              V("cz")), Bin("*", Bin("*", V("sx"), V("sy")), V("sz"))))>>],
        <<Throw>>)>>)

\* vec3_64e.add checking its last operand only after the core function ran.
vec3_64e_add_late ==
  Fn(<<"out", "a", "b">>, "void",
    <<Do("assert_64", <<V("out")>>),
      Do("assert_64", <<V("a")>>),
      Do("vec3.add", <<V("out"), V("a"), V("b")>>),
      Do("assert_64", <<V("b")>>)>>)

\* quat.slerp flipping the sign of b in the caller's buffer.
quat_slerp_inplace ==
  Fn(<<"out", "a", "b", "t">>, "void",
    <<Let("ax", Ix("a", 0)),
      Let("ay", Ix("a", 1)),
      Let("az", Ix("a", 2)),
      Let("aw", Ix("a", 3)),
      Let("bx", Ix("b", 0)),
      Let("by", Ix("b", 1)),
      Let("bz", Ix("b", 2)),
      Let("bw", Ix("b", 3)),
      Let("cosom", Bin("+", Bin("+", Bin("+", Bin("*", V("ax"), V("bx")),
          Bin("*", V("ay"), V("by"))), Bin("*", V("az"), V("bz"))), Bin("*",
          V("aw"), V("bw")))),
      If(Bin("<", V("cosom"), Lit(Zero)),
        <<Let("cosom", Un("-", V("cosom"))),
          Let("bx", Un("-", V("bx"))),
          Let("by", Un("-", V("by"))),
          Let("bz", Un("-", V("bz"))),
          Let("bw", Un("-", V("bw"))),
          Set("b", 0, V("bx")),
          Set("b", 1, V("by")),
          Set("b", 2, V("bz")),
          Set("b", 3, V("bw"))>>,
        <<>>),
      Let("scale0", Lit(Zero)),
      Let("scale1", Lit(Zero)),
      If(Bin(">", Bin("-", Lit(One), V("cosom")), Lit(Rat(1, 1000000))),
        <<Let("omega", Math1("acos", V("cosom"))),
          Let("sinom", Math1("sin", V("omega"))),
          Let("scale0", Bin("/", Math1("sin", Bin("*", Bin("-", Lit(One),
              V("t")), V("omega"))), V("sinom"))),
          Let("scale1", Bin("/", Math1("sin", Bin("*", V("t"), V("omega"))),
              V("sinom")))>>,
        <<Let("scale0", Bin("-", Lit(One), V("t"))),
          Let("scale1", V("t"))>>),
      Set("out", 0, Bin("+", Bin("*", V("scale0"), V("ax")), Bin("*",
          V("scale1"), V("bx")))),
      Set("out", 1, Bin("+", Bin("*", V("scale0"), V("ay")), Bin("*",
          V("scale1"), V("by")))),
      Set("out", 2, Bin("+", Bin("*", V("scale0"), V("az")), Bin("*",
          V("scale1"), V("bz")))),
      Set("out", 3, Bin("+", Bin("*", V("scale0"), V("aw")), Bin("*",
          V("scale1"), V("bw"))))>>)

\* quat.slerp weighting a by the sine of t * omega (the weight of b).
quat_slerp_swapped ==
  Fn(<<"out", "a", "b", "t">>, "void",
    <<Let("ax", Ix("a", 0)),
      Let("ay", Ix("a", 1)),
      Let("az", Ix("a", 2)),
      Let("aw", Ix("a", 3)),
      Let("bx", Ix("b", 0)),
      Let("by", Ix("b", 1)),
      Let("bz", Ix("b", 2)),
      Let("bw", Ix("b", 3)),
      Let("cosom", Bin("+", Bin("+", Bin("+", Bin("*", V("ax"), V("bx")),
          Bin("*", V("ay"), V("by"))), Bin("*", V("az"), V("bz"))), Bin("*",
          V("aw"), V("bw")))),
      If(Bin("<", V("cosom"), Lit(Zero)),
        <<Let("cosom", Un("-", V("cosom"))),
          Let("bx", Un("-", V("bx"))),
          Let("by", Un("-", V("by"))),
          Let("bz", Un("-", V("bz"))),
          Let("bw", Un("-", V("bw")))>>,
        <<>>),
      Let("scale0", Lit(Zero)),
      Let("scale1", Lit(Zero)),
      If(Bin(">", Bin("-", Lit(One), V("cosom")), Lit(Rat(1, 1000000))),
        <<Let("omega", Math1("acos", V("cosom"))),
          Let("sinom", Math1("sin", V("omega"))),
          Let("scale0", Bin("/", Math1("sin", Bin("*", V("t"), V("omega"))),
              V("sinom"))),
          Let("scale1", Bin("/", Math1("sin", Bin("*", V("t"), V("omega"))),
              V("sinom")))>>,
        <<Let("scale0", Bin("-", Lit(One), V("t"))),
          Let("scale1", V("t"))>>),
      Set("out", 0, Bin("+", Bin("*", V("scale0"), V("ax")), Bin("*",
          V("scale1"), V("bx")))),
      Set("out", 1, Bin("+", Bin("*", V("scale0"), V("ay")), Bin("*",
          V("scale1"), V("by")))),
      Set("out", 2, Bin("+", Bin("*", V("scale0"), V("az")), Bin("*",
          V("scale1"), V("bz")))),
      Set("out", 3, Bin("+", Bin("*", V("scale0"), V("aw")), Bin("*",
          V("scale1"), V("bw"))))>>)

\* quat.equals comparing the dot product itself, not its absolute value.
quat_equals_signed ==
  Fn(<<"a", "b">>, "boolean",
    <<Return(Bin(">=", Call("vec4.dot", <<V("a"), V("b")>>), Bin("-",
        Lit(One), Lit(Rat(1, 1000000)))))>>)

\* quat.getAxisAngle returning 0 whenever it falls back to the fixed axis.
quat_getAxisAngle_zeroed ==
  Fn(<<"out_axis", "q">>, "number",
    <<Let("rad", Bin("*", Math1("acos", Ix("q", 3)), Lit(Num(2)))),
      Let("s", Math1("sin", Bin("/", V("rad"), Lit(Num(2))))),
      If(Bin(">", V("s"), Lit(Rat(1, 1000000))),
        <<Set("out_axis", 0, Bin("/", Ix("q", 0), V("s"))),
          Set("out_axis", 1, Bin("/", Ix("q", 1), V("s"))),
          Set("out_axis", 2, Bin("/", Ix("q", 2), V("s")))>>,
        <<Set("out_axis", 0, Lit(One)),
          Set("out_axis", 1, Lit(Zero)),
          Set("out_axis", 2, Lit(Zero)),
          Return(Lit(Zero))>>),
      Return(V("rad"))>>)

\* quat.getAxisAngle returning the half angle, the arc cosine of q.w itself.
quat_getAxisAngle_half ==
  Fn(<<"out_axis", "q">>, "number",
    <<Let("rad", Math1("acos", Ix("q", 3))),
      Let("s", Math1("sin", V("rad"))),
      If(Bin(">", V("s"), Lit(Rat(1, 1000000))),
        <<Set("out_axis", 0, Bin("/", Ix("q", 0), V("s"))),
          Set("out_axis", 1, Bin("/", Ix("q", 1), V("s"))),
          Set("out_axis", 2, Bin("/", Ix("q", 2), V("s")))>>,
        <<Set("out_axis", 0, Lit(One)),
          Set("out_axis", 1, Lit(Zero)),
          Set("out_axis", 2, Lit(Zero))>>),
      Return(V("rad"))>>)

\* quat.rotationTo without the second candidate axis.
quat_rotationTo_xonly ==
  Fn(<<"out", "a", "b">>, "void",
    <<Let("dot", Call("vec3.dot", <<V("a"), V("b")>>)),
      If(Bin("<", V("dot"), Un("-", Lit(Rat(999999, 1000000)))),
        <<Do("vec3.cross", <<V("tmpvec3"), V("xUnitVec3"), V("a")>>),
          Do("vec3.normalize", <<V("tmpvec3"), V("tmpvec3")>>),
          Do("quat.setAxisAngle", <<V("out"), V("tmpvec3"), Lit(PI)>>)>>,
        <<If(Bin(">", V("dot"), Lit(Rat(999999, 1000000))),
            <<Set("out", 0, Lit(Zero)),
              Set("out", 1, Lit(Zero)),
              Set("out", 2, Lit(Zero)),
              Set("out", 3, Lit(One))>>,
            <<Do("vec3.cross", <<V("tmpvec3"), V("a"), V("b")>>),
              Set("out", 0, Ix("tmpvec3", 0)),
              Set("out", 1, Ix("tmpvec3", 1)),
              Set("out", 2, Ix("tmpvec3", 2)),
              Set("out", 3, Bin("+", Lit(One), V("dot"))),
              Do("vec4.normalize", <<V("out"), V("out")>>)>>)>>)>>)

\* vec3.normalize dividing by the length whatever it is.
vec3_normalize_unguarded ==
  Fn(<<"out", "a">>, "void",
    <<Let("x", Ix("a", 0)),
      Let("y", Ix("a", 1)),
      Let("z", Ix("a", 2)),
      Let("len", Bin("+", Bin("+", Bin("*", V("x"), V("x")), Bin("*", V("y"),
          V("y"))), Bin("*", V("z"), V("z")))),
      Let("len", Bin("/", Lit(One), Math1("sqrt", V("len")))),
      Set("out", 0, Bin("*", Ix("a", 0), V("len"))),
      Set("out", 1, Bin("*", Ix("a", 1), V("len"))),
      Set("out", 2, Bin("*", Ix("a", 2), V("len")))>>)

\* vec3.transformMat4 dividing by w even when w is 0.
vec3_transformMat4_raw ==
  Fn(<<"out", "a", "m">>, "void",
    <<Let("x", Ix("a", 0)),
      Let("y", Ix("a", 1)),
      Let("z", Ix("a", 2)),
      Let("w", Bin("+", Bin("+", Bin("+", Bin("*", Ix("m", 3), V("x")),
          Bin("*", Ix("m", 7), V("y"))), Bin("*", Ix("m", 11), V("z"))),
          Ix("m", 15))),
      Set("out", 0, Bin("/", Bin("+", Bin("+", Bin("+", Bin("*", Ix("m", 0),
          V("x")), Bin("*", Ix("m", 4), V("y"))), Bin("*", Ix("m", 8),
          V("z"))), Ix("m", 12)), V("w"))),
      Set("out", 1, Bin("/", Bin("+", Bin("+", Bin("+", Bin("*", Ix("m", 1),
          V("x")), Bin("*", Ix("m", 5), V("y"))), Bin("*", Ix("m", 9),
          V("z"))), Ix("m", 13)), V("w"))),
      Set("out", 2, Bin("/", Bin("+", Bin("+", Bin("+", Bin("*", Ix("m", 2),
          V("x")), Bin("*", Ix("m", 6), V("y"))), Bin("*", Ix("m", 10),
          V("z"))), Ix("m", 14)), V("w")))>>)

\* vec3.angle dividing by the product of the magnitudes whatever it is.
vec3_angle_unguarded ==
  Fn(<<"a", "b">>, "number",
    <<Let("ax", Ix("a", 0)),
      Let("ay", Ix("a", 1)),
      Let("az", Ix("a", 2)),
      Let("bx", Ix("b", 0)),
      Let("by", Ix("b", 1)),
      Let("bz", Ix("b", 2)),
      Let("mag", Math1("sqrt", Bin("*", Bin("+", Bin("+", Bin("*", V("ax"),
          V("ax")), Bin("*", V("ay"), V("ay"))), Bin("*", V("az"), V("az"))),
          Bin("+", Bin("+", Bin("*", V("bx"), V("bx")), Bin("*", V("by"),
          V("by"))), Bin("*", V("bz"), V("bz")))))),
      Let("cosine", Bin("/", Call("vec3.dot", <<V("a"), V("b")>>), V("mag"))),
      Return(Math1("acos", Math2("min", Math2("max", V("cosine"),
          Lit(Num(-1))), Lit(One))))>>)

\* vec3.equals with an absolute tolerance of 0.000001.
vec3_equals_absolute ==
  Fn(<<"a", "b">>, "boolean",
    <<Let("a0", Ix("a", 0)),
      Let("a1", Ix("a", 1)),
      Let("a2", Ix("a", 2)),
      Let("b0", Ix("b", 0)),
      Let("b1", Ix("b", 1)),
      Let("b2", Ix("b", 2)),
      Return(Bin("&&", Bin("&&", Bin("<=", Math1("abs", Bin("-", V("a0"),
          V("b0"))), Lit(Rat(1, 1000000))), Bin("<=", Math1("abs", Bin("-",
          V("a1"), V("b1"))), Lit(Rat(1, 1000000)))), Bin("<=", Math1("abs",
          Bin("-", V("a2"), V("b2"))), Lit(Rat(1, 1000000)))))>>)

\* quat_32e.slerp handing a and b to the core function in the other order.
quat_32e_slerp_swapped ==
  Fn(<<"out", "a", "b", "t">>, "void",
    <<Do("assert_32", <<V("out")>>),
      Do("assert_32", <<V("a")>>),
      Do("assert_32", <<V("b")>>),
      Do("quat.slerp", <<V("out"), V("b"), V("a"), V("t")>>)>>)

\* quat.multiply with the cross terms of b o a.
quat_multiply_reversed ==
  Fn(<<"out", "a", "b">>, "void",
    <<Let("ax", Ix("a", 0)),
      Let("ay", Ix("a", 1)),
      Let("az", Ix("a", 2)),
      Let("aw", Ix("a", 3)),
      Let("bx", Ix("b", 0)),
      Let("by", Ix("b", 1)),
      Let("bz", Ix("b", 2)),
      Let("bw", Ix("b", 3)),
      Set("out", 0, Bin("+", Bin("-", Bin("+", Bin("*", V("ax"), V("bw")),
          Bin("*", V("aw"), V("bx"))), Bin("*", V("ay"), V("bz"))), Bin("*",
          V("az"), V("by")))),
      Set("out", 1, Bin("+", Bin("-", Bin("+", Bin("*", V("ay"), V("bw")),
          Bin("*", V("aw"), V("by"))), Bin("*", V("az"), V("bx"))), Bin("*",
          V("ax"), V("bz")))),
      Set("out", 2, Bin("+", Bin("-", Bin("+", Bin("*", V("az"), V("bw")),
          Bin("*", V("aw"), V("bz"))), Bin("*", V("ax"), V("by"))), Bin("*",
          V("ay"), V("bx")))),
      Set("out", 3, Bin("-", Bin("-", Bin("-", Bin("*", V("aw"), V("bw")),
          Bin("*", V("ax"), V("bx"))), Bin("*", V("ay"), V("by"))), Bin("*",
          V("az"), V("bz"))))>>)

\* quat.rotateX with the elementary rotation as the left operand.
quat_rotateX_left ==
  Fn(<<"out", "a", "rad">>, "void",
    <<Let("rad", Bin("*", V("rad"), Lit(Rat(1, 2)))),
      Let("ax", Ix("a", 0)),
      Let("ay", Ix("a", 1)),
      Let("az", Ix("a", 2)),
      Let("aw", Ix("a", 3)),
      Let("bx", Math1("sin", V("rad"))),
      Let("bw", Math1("cos", V("rad"))),
      Set("out", 0, Bin("+", Bin("*", V("ax"), V("bw")), Bin("*", V("aw"),
          V("bx")))),
      Set("out", 1, Bin("-", Bin("*", V("ay"), V("bw")), Bin("*", V("az"),
          V("bx")))),
      Set("out", 2, Bin("+", Bin("*", V("az"), V("bw")), Bin("*", V("ay"),
          V("bx")))),
      Set("out", 3, Bin("-", Bin("*", V("aw"), V("bw")), Bin("*", V("ax"),
          V("bx"))))>>)

\* quat.slerp with the sign of the threshold of its linear branch slipped.
quat_slerp_always ==
  Fn(<<"out", "a", "b", "t">>, "void",
    <<Let("ax", Ix("a", 0)),
      Let("ay", Ix("a", 1)),
      Let("az", Ix("a", 2)),
      Let("aw", Ix("a", 3)),
      Let("bx", Ix("b", 0)),
      Let("by", Ix("b", 1)),
      Let("bz", Ix("b", 2)),
      Let("bw", Ix("b", 3)),
      Let("cosom", Bin("+", Bin("+", Bin("+", Bin("*", V("ax"), V("bx")),
          Bin("*", V("ay"), V("by"))), Bin("*", V("az"), V("bz"))), Bin("*",
          V("aw"), V("bw")))),
      If(Bin("<", V("cosom"), Lit(Zero)),
        <<Let("cosom", Un("-", V("cosom"))),
          Let("bx", Un("-", V("bx"))),
          Let("by", Un("-", V("by"))),
          Let("bz", Un("-", V("bz"))),
          Let("bw", Un("-", V("bw")))>>,
        <<>>),
      Let("scale0", Lit(Zero)),
      Let("scale1", Lit(Zero)),
      If(Bin(">", Bin("-", Lit(One), V("cosom")), Un("-", Lit(Rat(1,
          1000000)))),
        <<Let("omega", Math1("acos", V("cosom"))),
          Let("sinom", Math1("sin", V("omega"))),
          Let("scale0", Bin("/", Math1("sin", Bin("*", Bin("-", Lit(One),
              V("t")), V("omega"))), V("sinom"))),
          Let("scale1", Bin("/", Math1("sin", Bin("*", V("t"), V("omega"))),
              V("sinom")))>>,
        <<Let("scale0", Bin("-", Lit(One), V("t"))),
          Let("scale1", V("t"))>>),
      Set("out", 0, Bin("+", Bin("*", V("scale0"), V("ax")), Bin("*",
          V("scale1"), V("bx")))),
      Set("out", 1, Bin("+", Bin("*", V("scale0"), V("ay")), Bin("*",
          V("scale1"), V("by")))),
      Set("out", 2, Bin("+", Bin("*", V("scale0"), V("az")), Bin("*",
          V("scale1"), V("bz")))),
      Set("out", 3, Bin("+", Bin("*", V("scale0"), V("aw")), Bin("*",
          V("scale1"), V("bw"))))>>)

\* quat.slerp taking the absolute value of the cosine without negating b.
quat_slerp_noflip ==
  Fn(<<"out", "a", "b", "t">>, "void",
    <<Let("ax", Ix("a", 0)),
      Let("ay", Ix("a", 1)),
      Let("az", Ix("a", 2)),
      Let("aw", Ix("a", 3)),
      Let("bx", Ix("b", 0)),
      Let("by", Ix("b", 1)),
      Let("bz", Ix("b", 2)),
      Let("bw", Ix("b", 3)),
      Let("cosom", Bin("+", Bin("+", Bin("+", Bin("*", V("ax"), V("bx")),
          Bin("*", V("ay"), V("by"))), Bin("*", V("az"), V("bz"))), Bin("*",
          V("aw"), V("bw")))),
      If(Bin("<", V("cosom"), Lit(Zero)),
        <<Let("cosom", Un("-", V("cosom")))>>,
        <<>>),
      Let("scale0", Lit(Zero)),
      Let("scale1", Lit(Zero)),
      If(Bin(">", Bin("-", Lit(One), V("cosom")), Lit(Rat(1, 1000000))),
        <<Let("omega", Math1("acos", V("cosom"))),
          Let("sinom", Math1("sin", V("omega"))),
          Let("scale0", Bin("/", Math1("sin", Bin("*", Bin("-", Lit(One),
              V("t")), V("omega"))), V("sinom"))),
          Let("scale1", Bin("/", Math1("sin", Bin("*", V("t"), V("omega"))),
              V("sinom")))>>,
        <<Let("scale0", Bin("-", Lit(One), V("t"))),
          Let("scale1", V("t"))>>),
      Set("out", 0, Bin("+", Bin("*", V("scale0"), V("ax")), Bin("*",
          V("scale1"), V("bx")))),
      Set("out", 1, Bin("+", Bin("*", V("scale0"), V("ay")), Bin("*",
          V("scale1"), V("by")))),
      Set("out", 2, Bin("+", Bin("*", V("scale0"), V("az")), Bin("*",
          V("scale1"), V("bz")))),
      Set("out", 3, Bin("+", Bin("*", V("scale0"), V("aw")), Bin("*",
          V("scale1"), V("bw"))))>>)
\* sqlerp that blends temp1 and temp2 before it has written temp2
quat_sqlerp_early ==
  Fn(<<"out", "a", "b", "c", "d", "t">>, "void",
    <<Do("quat.slerp", <<V("temp1"), V("a"), V("d"), V("t")>>),
      Do("quat.slerp", <<V("out"), V("temp1"), V("temp2"), Bin("*", Bin("*",
          Lit(Num(2)), V("t")), Bin("-", Lit(One), V("t")))>>),
      Do("quat.slerp", <<V("temp2"), V("b"), V("c"), V("t")>>)>>)

\* slerp that keeps the first component of its result in temp1 of sqlerp
\* before it writes it to out
quat_slerp_scratch ==
  Fn(<<"out", "a", "b", "t">>, "void",
    <<Let("ax", Ix("a", 0)),
      Let("ay", Ix("a", 1)),
      Let("az", Ix("a", 2)),
      Let("aw", Ix("a", 3)),
      Let("bx", Ix("b", 0)),
      Let("by", Ix("b", 1)),
      Let("bz", Ix("b", 2)),
      Let("bw", Ix("b", 3)),
      Let("cosom", Bin("+", Bin("+", Bin("+", Bin("*", V("ax"), V("bx")),
          Bin("*", V("ay"), V("by"))), Bin("*", V("az"), V("bz"))), Bin("*",
          V("aw"), V("bw")))),
      If(Bin("<", V("cosom"), Lit(Zero)),
        <<Let("cosom", Un("-", V("cosom"))),
          Let("bx", Un("-", V("bx"))),
          Let("by", Un("-", V("by"))),
          Let("bz", Un("-", V("bz"))),
          Let("bw", Un("-", V("bw")))>>,
        <<>>),
      Let("scale0", Lit(Zero)),
      Let("scale1", Lit(Zero)),
      If(Bin(">", Bin("-", Lit(One), V("cosom")), Lit(Rat(1, 1000000))),
        <<Let("omega", Math1("acos", V("cosom"))),
          Let("sinom", Math1("sin", V("omega"))),
          Let("scale0", Bin("/", Math1("sin", Bin("*", Bin("-", Lit(One),
              V("t")), V("omega"))), V("sinom"))),
          Let("scale1", Bin("/", Math1("sin", Bin("*", V("t"), V("omega"))),
              V("sinom")))>>,
        <<Let("scale0", Bin("-", Lit(One), V("t"))),
          Let("scale1", V("t"))>>),
      Set("temp1", 0, Bin("+", Bin("*", V("scale0"), V("ax")), Bin("*",
          V("scale1"), V("bx")))),
      Set("out", 0, Ix("temp1", 0)),
      Set("out", 1, Bin("+", Bin("*", V("scale0"), V("ay")), Bin("*",
          V("scale1"), V("by")))),
      Set("out", 2, Bin("+", Bin("*", V("scale0"), V("az")), Bin("*",
          V("scale1"), V("bz")))),
      Set("out", 3, Bin("+", Bin("*", V("scale0"), V("aw")), Bin("*",
          V("scale1"), V("bw"))))>>)

\* invert that does not negate x
quat_invert_unsigned ==
  Fn(<<"out", "a">>, "void",
    <<Let("a0", Ix("a", 0)),
      Let("a1", Ix("a", 1)),
      Let("a2", Ix("a", 2)),
      Let("a3", Ix("a", 3)),
      Let("dot", Bin("+", Bin("+", Bin("+", Bin("*", V("a0"), V("a0")),
          Bin("*", V("a1"), V("a1"))), Bin("*", V("a2"), V("a2"))), Bin("*",
          V("a3"), V("a3")))),
      Let("invDot", Cond(Un("ToBoolean", V("dot")), Bin("/", Lit(One),
          V("dot")), Lit(Zero))),
      Set("out", 0, Bin("*", V("a0"), V("invDot"))),
      Set("out", 1, Bin("*", Un("-", V("a1")), V("invDot"))),
      Set("out", 2, Bin("*", Un("-", V("a2")), V("invDot"))),
      Set("out", 3, Bin("*", V("a3"), V("invDot")))>>)

\* fromEuler whose default order is XYZ
quat_fromEuler_xyz ==
  Fn(<<"out", "x", "y", "z", "order">>, "void",
    <<Default("order", "XYZ"),
      Let("halfToRad", Bin("/", Lit(PI), Lit(Num(360)))),
      Let("x", Bin("*", V("x"), V("halfToRad"))),
      Let("z", Bin("*", V("z"), V("halfToRad"))),
      Let("y", Bin("*", V("y"), V("halfToRad"))),
      Let("sx", Math1("sin", V("x"))),
      Let("cx", Math1("cos", V("x"))),
      Let("sy", Math1("sin", V("y"))),
      Let("cy", Math1("cos", V("y"))),
      Let("sz", Math1("sin", V("z"))),
      Let("cz", Math1("cos", V("z"))),
      Switch("order",
      [XYZ |->
        <<Set("out", 0, Bin("+", Bin("*", Bin("*", V("sx"), V("cy")),
            V("cz")), Bin("*", Bin("*", V("cx"), V("sy")), V("sz")))),
          Set("out", 1, Bin("-", Bin("*", Bin("*", V("cx"), V("sy")),
              V("cz")), Bin("*", Bin("*", V("sx"), V("cy")), V("sz")))),
          Set("out", 2, Bin("+", Bin("*", Bin("*", V("cx"), V("cy")),
              V("sz")), Bin("*", Bin("*", V("sx"), V("sy")), V("cz")))),
          Set("out", 3, Bin("-", Bin("*", Bin("*", V("cx"), V("cy")),
              V("cz")), Bin("*", Bin("*", V("sx"), V("sy")), V("sz"))))>>,
      XZY |->
        <<Set("out", 0, Bin("-", Bin("*", Bin("*", V("sx"), V("cy")),
            V("cz")), Bin("*", Bin("*", V("cx"), V("sy")), V("sz")))),
          Set("out", 1, Bin("-", Bin("*", Bin("*", V("cx"), V("sy")),
              V("cz")), Bin("*", Bin("*", V("sx"), V("cy")), V("sz")))),
          Set("out", 2, Bin("+", Bin("*", Bin("*", V("cx"), V("cy")),
              V("sz")), Bin("*", Bin("*", V("sx"), V("sy")), V("cz")))),
          Set("out", 3, Bin("+", Bin("*", Bin("*", V("cx"), V("cy")),
              V("cz")), Bin("*", Bin("*", V("sx"), V("sy")), V("sz"))))>>,
      YXZ |->
        <<Set("out", 0, Bin("+", Bin("*", Bin("*", V("sx"), V("cy")),
            V("cz")), Bin("*", Bin("*", V("cx"), V("sy")), V("sz")))),
          Set("out", 1, Bin("-", Bin("*", Bin("*", V("cx"), V("sy")),
              V("cz")), Bin("*", Bin("*", V("sx"), V("cy")), V("sz")))),
          Set("out", 2, Bin("-", Bin("*", Bin("*", V("cx"), V("cy")),
              V("sz")), Bin("*", Bin("*", V("sx"), V("sy")), V("cz")))),
          Set("out", 3, Bin("+", Bin("*", Bin("*", V("cx"), V("cy")),
              V("cz")), Bin("*", Bin("*", V("sx"), V("sy")), V("sz"))))>>,
      YZX |->
        <<Set("out", 0, Bin("+", Bin("*", Bin("*", V("sx"), V("cy")),
            V("cz")), Bin("*", Bin("*", V("cx"), V("sy")), V("sz")))),
          Set("out", 1, Bin("+", Bin("*", Bin("*", V("cx"), V("sy")),
              V("cz")), Bin("*", Bin("*", V("sx"), V("cy")), V("sz")))),
          Set("out", 2, Bin("-", Bin("*", Bin("*", V("cx"), V("cy")),
              V("sz")), Bin("*", Bin("*", V("sx"), V("sy")), V("cz")))),
          Set("out", 3, Bin("-", Bin("*", Bin("*", V("cx"), V("cy")),
              V("cz")), Bin("*", Bin("*", V("sx"), V("sy")), V("sz"))))>>,
      ZXY |->
        <<Set("out", 0, Bin("-", Bin("*", Bin("*", V("sx"), V("cy")),
            V("cz")), Bin("*", Bin("*", V("cx"), V("sy")), V("sz")))),
          Set("out", 1, Bin("+", Bin("*", Bin("*", V("cx"), V("sy")),
              V("cz")), Bin("*", Bin("*", V("sx"), V("cy")), V("sz")))),
          Set("out", 2, Bin("+", Bin("*", Bin("*", V("cx"), V("cy")),
              V("sz")), Bin("*", Bin("*", V("sx"), V("sy")), V("cz")))),
          Set("out", 3, Bin("-", Bin("*", Bin("*", V("cx"), V("cy")),
              V("cz")), Bin("*", Bin("*", V("sx"), V("sy")), V("sz"))))>>,
      ZYX |->
        <<Set("out", 0, Bin("-", Bin("*", Bin("*", V("sx"), V("cy")),
            V("cz")), Bin("*", Bin("*", V("cx"), V("sy")), V("sz")))),
          Set("out", 1, Bin("+", Bin("*", Bin("*", V("cx"), V("sy")),
              V("cz")), Bin("*", Bin("*", V("sx"), V("cy")), V("sz")))),
          Set("out", 2, Bin("-", Bin("*", Bin("*", V("cx"), V("cy")),
              V("sz")), Bin("*", Bin("*", V("sx"), V("sy")), V("cz")))),
          Set("out", 3, Bin("+", Bin("*", Bin("*", V("cx"), V("cy")),
              V("cz")), Bin("*", Bin("*", V("sx"), V("sy")), V("sz"))))>>],
        <<Throw>>)>>)

\* fromEuler with a sign of the order YZX changed
quat_fromEuler_yzx ==
  Fn(<<"out", "x", "y", "z", "order">>, "void",
    <<Default("order", "ZYX"),
      Let("halfToRad", Bin("/", Lit(PI), Lit(Num(360)))),
      Let("x", Bin("*", V("x"), V("halfToRad"))),
      Let("z", Bin("*", V("z"), V("halfToRad"))),
      Let("y", Bin("*", V("y"), V("halfToRad"))),
      Let("sx", Math1("sin", V("x"))),
      Let("cx", Math1("cos", V("x"))),
      Let("sy", Math1("sin", V("y"))),
      Let("cy", Math1("cos", V("y"))),
      Let("sz", Math1("sin", V("z"))),
      Let("cz", Math1("cos", V("z"))),
      Switch("order",
      [XYZ |->
        <<Set("out", 0, Bin("+", Bin("*", Bin("*", V("sx"), V("cy")),
            V("cz")), Bin("*", Bin("*", V("cx"), V("sy")), V("sz")))),
          Set("out", 1, Bin("-", Bin("*", Bin("*", V("cx"), V("sy")),
              V("cz")), Bin("*", Bin("*", V("sx"), V("cy")), V("sz")))),
          Set("out", 2, Bin("+", Bin("*", Bin("*", V("cx"), V("cy")),
              V("sz")), Bin("*", Bin("*", V("sx"), V("sy")), V("cz")))),
          Set("out", 3, Bin("-", Bin("*", Bin("*", V("cx"), V("cy")),
              V("cz")), Bin("*", Bin("*", V("sx"), V("sy")), V("sz"))))>>,
      XZY |->
        <<Set("out", 0, Bin("-", Bin("*", Bin("*", V("sx"), V("cy")),
            V("cz")), Bin("*", Bin("*", V("cx"), V("sy")), V("sz")))),
          Set("out", 1, Bin("-", Bin("*", Bin("*", V("cx"), V("sy")),
              V("cz")), Bin("*", Bin("*", V("sx"), V("cy")), V("sz")))),
          Set("out", 2, Bin("+", Bin("*", Bin("*", V("cx"), V("cy")),
              V("sz")), Bin("*", Bin("*", V("sx"), V("sy")), V("cz")))),
          Set("out", 3, Bin("+", Bin("*", Bin("*", V("cx"), V("cy")),
              V("cz")), Bin("*", Bin("*", V("sx"), V("sy")), V("sz"))))>>,
      YXZ |->
        <<Set("out", 0, Bin("+", Bin("*", Bin("*", V("sx"), V("cy")),
            V("cz")), Bin("*", Bin("*", V("cx"), V("sy")), V("sz")))),
          Set("out", 1, Bin("-", Bin("*", Bin("*", V("cx"), V("sy")),
              V("cz")), Bin("*", Bin("*", V("sx"), V("cy")), V("sz")))),
          Set("out", 2, Bin("-", Bin("*", Bin("*", V("cx"), V("cy")),
              V("sz")), Bin("*", Bin("*", V("sx"), V("sy")), V("cz")))),
          Set("out", 3, Bin("+", Bin("*", Bin("*", V("cx"), V("cy")),
              V("cz")), Bin("*", Bin("*", V("sx"), V("sy")), V("sz"))))>>,
      YZX |->
        <<Set("out", 0, Bin("-", Bin("*", Bin("*", V("sx"), V("cy")),
            V("cz")), Bin("*", Bin("*", V("cx"), V("sy")), V("sz")))),
          Set("out", 1, Bin("+", Bin("*", Bin("*", V("cx"), V("sy")),
              V("cz")), Bin("*", Bin("*", V("sx"), V("cy")), V("sz")))),
          Set("out", 2, Bin("-", Bin("*", Bin("*", V("cx"), V("cy")),
              V("sz")), Bin("*", Bin("*", V("sx"), V("sy")), V("cz")))),
          Set("out", 3, Bin("-", Bin("*", Bin("*", V("cx"), V("cy")),
              V("cz")), Bin("*", Bin("*", V("sx"), V("sy")), V("sz"))))>>,
      ZXY |->
        <<Set("out", 0, Bin("-", Bin("*", Bin("*", V("sx"), V("cy")),
            V("cz")), Bin("*", Bin("*", V("cx"), V("sy")), V("sz")))),
          Set("out", 1, Bin("+", Bin("*", Bin("*", V("cx"), V("sy")),
              V("cz")), Bin("*", Bin("*", V("sx"), V("cy")), V("sz")))),
          Set("out", 2, Bin("+", Bin("*", Bin("*", V("cx"), V("cy")),
              V("sz")), Bin("*", Bin("*", V("sx"), V("sy")), V("cz")))),
          Set("out", 3, Bin("-", Bin("*", Bin("*", V("cx"), V("cy")),
              V("cz")), Bin("*", Bin("*", V("sx"), V("sy")), V("sz"))))>>,
      ZYX |->
        <<Set("out", 0, Bin("-", Bin("*", Bin("*", V("sx"), V("cy")),
            V("cz")), Bin("*", Bin("*", V("cx"), V("sy")), V("sz")))),
          Set("out", 1, Bin("+", Bin("*", Bin("*", V("cx"), V("sy")),
              V("cz")), Bin("*", Bin("*", V("sx"), V("cy")), V("sz")))),
          Set("out", 2, Bin("-", Bin("*", Bin("*", V("cx"), V("cy")),
              V("sz")), Bin("*", Bin("*", V("sx"), V("sy")), V("cz")))),
          Set("out", 3, Bin("+", Bin("*", Bin("*", V("cx"), V("cy")),
              V("cz")), Bin("*", Bin("*", V("sx"), V("sy")), V("sz"))))>>],
        <<Throw>>)>>)

\* transformQuat that does not double the first cross product
vec3_transformQuat_single ==
  Fn(<<"out", "a", "q">>, "void",
    <<Let("qx", Ix("q", 0)),
      Let("qy", Ix("q", 1)),
      Let("qz", Ix("q", 2)),
      Let("qw", Ix("q", 3)),
      Let("x", Ix("a", 0)),
      Let("y", Ix("a", 1)),
      Let("z", Ix("a", 2)),
      Let("uvx", Bin("-", Bin("*", V("qy"), V("z")), Bin("*", V("qz"),
          V("y")))),
      Let("uvy", Bin("-", Bin("*", V("qz"), V("x")), Bin("*", V("qx"),
          V("z")))),
      Let("uvz", Bin("-", Bin("*", V("qx"), V("y")), Bin("*", V("qy"),
          V("x")))),
      Let("uuvx", Bin("-", Bin("*", V("qy"), V("uvz")), Bin("*", V("qz"),
          V("uvy")))),
      Let("uuvy", Bin("-", Bin("*", V("qz"), V("uvx")), Bin("*", V("qx"),
          V("uvz")))),
      Let("uuvz", Bin("-", Bin("*", V("qx"), V("uvy")), Bin("*", V("qy"),
          V("uvx")))),
      Let("w2", V("qw")),
      Let("uvx", Bin("*", V("uvx"), V("w2"))),
      Let("uvy", Bin("*", V("uvy"), V("w2"))),
      Let("uvz", Bin("*", V("uvz"), V("w2"))),
      Let("uuvx", Bin("*", V("uuvx"), Lit(Num(2)))),
      Let("uuvy", Bin("*", V("uuvy"), Lit(Num(2)))),
      Let("uuvz", Bin("*", V("uuvz"), Lit(Num(2)))),
      Set("out", 0, Bin("+", Bin("+", V("x"), V("uvx")), V("uuvx"))),
      Set("out", 1, Bin("+", Bin("+", V("y"), V("uvy")), V("uuvy"))),
      Set("out", 2, Bin("+", Bin("+", V("z"), V("uvz")), V("uuvz")))>>)

\* slerp that takes its linear branch within 0.5 of parallel
quat_slerp_coarse ==
  Fn(<<"out", "a", "b", "t">>, "void",
    <<Let("ax", Ix("a", 0)),
      Let("ay", Ix("a", 1)),
      Let("az", Ix("a", 2)),
      Let("aw", Ix("a", 3)),
      Let("bx", Ix("b", 0)),
      Let("by", Ix("b", 1)),
      Let("bz", Ix("b", 2)),
      Let("bw", Ix("b", 3)),
      Let("cosom", Bin("+", Bin("+", Bin("+", Bin("*", V("ax"), V("bx")),
          Bin("*", V("ay"), V("by"))), Bin("*", V("az"), V("bz"))), Bin("*",
          V("aw"), V("bw")))),
      If(Bin("<", V("cosom"), Lit(Zero)),
        <<Let("cosom", Un("-", V("cosom"))),
          Let("bx", Un("-", V("bx"))),
          Let("by", Un("-", V("by"))),
          Let("bz", Un("-", V("bz"))),
          Let("bw", Un("-", V("bw")))>>,
        <<>>),
      Let("scale0", Lit(Zero)),
      Let("scale1", Lit(Zero)),
      If(Bin(">", Bin("-", Lit(One), V("cosom")), Lit(Rat(1, 2))),
        <<Let("omega", Math1("acos", V("cosom"))),
          Let("sinom", Math1("sin", V("omega"))),
          Let("scale0", Bin("/", Math1("sin", Bin("*", Bin("-", Lit(One),
              V("t")), V("omega"))), V("sinom"))),
          Let("scale1", Bin("/", Math1("sin", Bin("*", V("t"), V("omega"))),
              V("sinom")))>>,
        <<Let("scale0", Bin("-", Lit(One), V("t"))),
          Let("scale1", V("t"))>>),
      Set("out", 0, Bin("+", Bin("*", V("scale0"), V("ax")), Bin("*",
          V("scale1"), V("bx")))),
      Set("out", 1, Bin("+", Bin("*", V("scale0"), V("ay")), Bin("*",
          V("scale1"), V("by")))),
      Set("out", 2, Bin("+", Bin("*", V("scale0"), V("az")), Bin("*",
          V("scale1"), V("bz")))),
      Set("out", 3, Bin("+", Bin("*", V("scale0"), V("aw")), Bin("*",
          V("scale1"), V("bw"))))>>)

\* sqlerp that pairs a with b and c with d
quat_sqlerp_paired ==
  Fn(<<"out", "a", "b", "c", "d", "t">>, "void",
    <<Do("quat.slerp", <<V("temp1"), V("a"), V("b"), V("t")>>),
      Do("quat.slerp", <<V("temp2"), V("c"), V("d"), V("t")>>),
      Do("quat.slerp", <<V("out"), V("temp1"), V("temp2"), Bin("*", Bin("*",
          Lit(Num(2)), V("t")), Bin("-", Lit(One), V("t")))>>)>>)

\* ln that divides by the length of the vector part also when it is 0
quat_ln_unguarded ==
  Fn(<<"out", "a">>, "void",
    <<Let("x", Ix("a", 0)),
      Let("y", Ix("a", 1)),
      Let("z", Ix("a", 2)),
      Let("w", Ix("a", 3)),
      Let("r", Math1("sqrt", Bin("+", Bin("+", Bin("*", V("x"), V("x")),
          Bin("*", V("y"), V("y"))), Bin("*", V("z"), V("z"))))),
      Let("t", Bin("/", Math2("atan2", V("r"), V("w")), V("r"))),
      Set("out", 0, Bin("*", V("x"), V("t"))),
      Set("out", 1, Bin("*", V("y"), V("t"))),
      Set("out", 2, Bin("*", V("z"), V("t"))),
      Set("out", 3, Bin("*", Lit(Rat(1, 2)), Math1("log", Bin("+", Bin("+",
          Bin("+", Bin("*", V("x"), V("x")), Bin("*", V("y"), V("y"))),
          Bin("*", V("z"), V("z"))), Bin("*", V("w"), V("w"))))))>>)

\* invert that does not divide by the squared length
quat_invert_unscaled ==
  Fn(<<"out", "a">>, "void",
    <<Let("a0", Ix("a", 0)),
      Let("a1", Ix("a", 1)),
      Let("a2", Ix("a", 2)),
      Let("a3", Ix("a", 3)),
      Let("dot", Bin("+", Bin("+", Bin("+", Bin("*", V("a0"), V("a0")),
          Bin("*", V("a1"), V("a1"))), Bin("*", V("a2"), V("a2"))), Bin("*",
          V("a3"), V("a3")))),
      Let("invDot", Cond(Un("ToBoolean", V("dot")), Lit(One), Lit(Zero))),
      Set("out", 0, Bin("*", Un("-", V("a0")), V("invDot"))),
      Set("out", 1, Bin("*", Un("-", V("a1")), V("invDot"))),
      Set("out", 2, Bin("*", Un("-", V("a2")), V("invDot"))),
      Set("out", 3, Bin("*", V("a3"), V("invDot")))>>)
\* transformMat4 that reads the matrix by rows
vec4_transformMat4_rows ==
  Fn(<<"out", "a", "m">>, "void",
    <<Let("x", Ix("a", 0)),
      Let("y", Ix("a", 1)),
      Let("z", Ix("a", 2)),
      Let("w", Ix("a", 3)),
      Set("out", 0, Bin("+", Bin("+", Bin("+", Bin("*", Ix("m", 0), V("x")),
          Bin("*", Ix("m", 1), V("y"))), Bin("*", Ix("m", 2), V("z"))),
          Bin("*", Ix("m", 3), V("w")))),
      Set("out", 1, Bin("+", Bin("+", Bin("+", Bin("*", Ix("m", 4), V("x")),
          Bin("*", Ix("m", 5), V("y"))), Bin("*", Ix("m", 6), V("z"))),
          Bin("*", Ix("m", 7), V("w")))),
      Set("out", 2, Bin("+", Bin("+", Bin("+", Bin("*", Ix("m", 8), V("x")),
          Bin("*", Ix("m", 9), V("y"))), Bin("*", Ix("m", 10), V("z"))),
          Bin("*", Ix("m", 11), V("w")))),
      Set("out", 3, Bin("+", Bin("+", Bin("+", Bin("*", Ix("m", 12), V("x")),
          Bin("*", Ix("m", 13), V("y"))), Bin("*", Ix("m", 14), V("z"))),
          Bin("*", Ix("m", 15), V("w"))))>>)

----------------------------------------------------------------------------
(* The functions of the library *)

\* The members of the enum AngleOrder (AngleOrder.js), by name.
AngleOrder == {"XYZ", "XZY", "YXZ", "YZX", "ZXY", "ZYX"}

\* vec3.length (src/unnamed/part_000, lines 73-78)
vec3_length ==
  Fn(<<"a">>, "number",
    <<Let("x", Ix("a", 0)),
      Let("y", Ix("a", 1)),
      Let("z", Ix("a", 2)),
      Return(Math1("sqrt", Bin("+", Bin("+", Bin("*", V("x"), V("x")),
          Bin("*", V("y"), V("y"))), Bin("*", V("z"), V("z")))))>>)

\* vec3.copy (src/unnamed/part_000, lines 102-106)
vec3_copy ==
  Fn(<<"out", "a">>, "void",
    <<Set("out", 0, Ix("a", 0)),
      Set("out", 1, Ix("a", 1)),
      Set("out", 2, Ix("a", 2))>>)

\* vec3.add (src/unnamed/part_000, lines 129-133)
vec3_add ==
  Fn(<<"out", "a", "b">>, "void",
    <<Set("out", 0, Bin("+", Ix("a", 0), Ix("b", 0))),
      Set("out", 1, Bin("+", Ix("a", 1), Ix("b", 1))),
      Set("out", 2, Bin("+", Ix("a", 2), Ix("b", 2)))>>)

\* vec3.scale (src/unnamed/part_000, lines 243-247)
vec3_scale ==
  Fn(<<"out", "a", "b">>, "void",
    <<Set("out", 0, Bin("*", Ix("a", 0), V("b"))),
      Set("out", 1, Bin("*", Ix("a", 1), V("b"))),
      Set("out", 2, Bin("*", Ix("a", 2), V("b")))>>)

\* vec3.distance (src/unnamed/part_000, lines 270-275)
vec3_distance ==
  Fn(<<"a", "b">>, "number",
    <<Let("x", Bin("-", Ix("b", 0), Ix("a", 0))),
      Let("y", Bin("-", Ix("b", 1), Ix("a", 1))),
      Let("z", Bin("-", Ix("b", 2), Ix("a", 2))),
      Return(Math1("sqrt", Bin("+", Bin("+", Bin("*", V("x"), V("x")),
          Bin("*", V("y"), V("y"))), Bin("*", V("z"), V("z")))))>>)

\* vec3.squaredDistance (src/unnamed/part_000, lines 284-289)
vec3_squaredDistance ==
  Fn(<<"a", "b">>, "number",
    <<Let("x", Bin("-", Ix("b", 0), Ix("a", 0))),
      Let("y", Bin("-", Ix("b", 1), Ix("a", 1))),
      Let("z", Bin("-", Ix("b", 2), Ix("a", 2))),
      Return(Bin("+", Bin("+", Bin("*", V("x"), V("x")), Bin("*", V("y"),
          V("y"))), Bin("*", V("z"), V("z"))))>>)

\* vec3.squaredLength (src/unnamed/part_000, lines 297-302)
vec3_squaredLength ==
  Fn(<<"a">>, "number",
    <<Let("x", Ix("a", 0)),
      Let("y", Ix("a", 1)),
      Let("z", Ix("a", 2)),
      Return(Bin("+", Bin("+", Bin("*", V("x"), V("x")), Bin("*", V("y"),
          V("y"))), Bin("*", V("z"), V("z"))))>>)

\* vec3.normalize (src/unnamed/part_000, lines 334-346)
vec3_normalize ==
  Fn(<<"out", "a">>, "void",
    <<Let("x", Ix("a", 0)),
      Let("y", Ix("a", 1)),
      Let("z", Ix("a", 2)),
      Let("len", Bin("+", Bin("+", Bin("*", V("x"), V("x")), Bin("*", V("y"),
          V("y"))), Bin("*", V("z"), V("z")))),
      If(Bin(">", V("len"), Lit(Zero)),
        <<Let("len", Bin("/", Lit(One), Math1("sqrt", V("len"))))>>,
        <<>>),
      Set("out", 0, Bin("*", Ix("a", 0), V("len"))),
      Set("out", 1, Bin("*", Ix("a", 1), V("len"))),
      Set("out", 2, Bin("*", Ix("a", 2), V("len")))>>)

\* vec3.dot (src/unnamed/part_000, lines 355-357)
vec3_dot ==
  Fn(<<"a", "b">>, "number",
    <<Return(Bin("+", Bin("+", Bin("*", Ix("a", 0), Ix("b", 0)), Bin("*",
        Ix("a", 1), Ix("b", 1))), Bin("*", Ix("a", 2), Ix("b", 2))))>>)

\* vec3.cross (src/unnamed/part_000, lines 366-377)
vec3_cross ==
  Fn(<<"out", "a", "b">>, "void",
    <<Let("ax", Ix("a", 0)),
      Let("ay", Ix("a", 1)),
      Let("az", Ix("a", 2)),
      Let("bx", Ix("b", 0)),
      Let("by", Ix("b", 1)),
      Let("bz", Ix("b", 2)),
      Set("out", 0, Bin("-", Bin("*", V("ay"), V("bz")), Bin("*", V("az"),
          V("by")))),
      Set("out", 1, Bin("-", Bin("*", V("az"), V("bx")), Bin("*", V("ax"),
          V("bz")))),
      Set("out", 2, Bin("-", Bin("*", V("ax"), V("by")), Bin("*", V("ay"),
          V("bx"))))>>)

\* vec3.lerp (src/unnamed/part_000, lines 387-394)
vec3_lerp ==
  Fn(<<"out", "a", "b", "t">>, "void",
    <<Let("ax", Ix("a", 0)),
      Let("ay", Ix("a", 1)),
      Let("az", Ix("a", 2)),
      Set("out", 0, Bin("+", V("ax"), Bin("*", V("t"), Bin("-", Ix("b", 0),
          V("ax"))))),
      Set("out", 1, Bin("+", V("ay"), Bin("*", V("t"), Bin("-", Ix("b", 1),
          V("ay"))))),
      Set("out", 2, Bin("+", V("az"), Bin("*", V("t"), Bin("-", Ix("b", 2),
          V("az")))))>>)

\* vec3.transformMat4 (src/unnamed/part_000, lines 483-492)
vec3_transformMat4 ==
  Fn(<<"out", "a", "m">>, "void",
    <<Let("x", Ix("a", 0)),
      Let("y", Ix("a", 1)),
      Let("z", Ix("a", 2)),
      Let("w", Bin("+", Bin("+", Bin("+", Bin("*", Ix("m", 3), V("x")),
          Bin("*", Ix("m", 7), V("y"))), Bin("*", Ix("m", 11), V("z"))),
          Ix("m", 15))),
      Let("w", Bin("||n", V("w"), Lit(One))),
      Set("out", 0, Bin("/", Bin("+", Bin("+", Bin("+", Bin("*", Ix("m", 0),
          V("x")), Bin("*", Ix("m", 4), V("y"))), Bin("*", Ix("m", 8),
          V("z"))), Ix("m", 12)), V("w"))),
      Set("out", 1, Bin("/", Bin("+", Bin("+", Bin("+", Bin("*", Ix("m", 1),
          V("x")), Bin("*", Ix("m", 5), V("y"))), Bin("*", Ix("m", 9),
          V("z"))), Ix("m", 13)), V("w"))),
      Set("out", 2, Bin("/", Bin("+", Bin("+", Bin("+", Bin("*", Ix("m", 2),
          V("x")), Bin("*", Ix("m", 6), V("y"))), Bin("*", Ix("m", 10),
          V("z"))), Ix("m", 14)), V("w")))>>)

\* vec3.transformQuat (src/unnamed/part_000, lines 502-533)
vec3_transformQuat ==
  Fn(<<"out", "a", "q">>, "void",
    <<Let("qx", Ix("q", 0)),
      Let("qy", Ix("q", 1)),
      Let("qz", Ix("q", 2)),
      Let("qw", Ix("q", 3)),
      Let("x", Ix("a", 0)),
      Let("y", Ix("a", 1)),
      Let("z", Ix("a", 2)),
      Let("uvx", Bin("-", Bin("*", V("qy"), V("z")), Bin("*", V("qz"),
          V("y")))),
      Let("uvy", Bin("-", Bin("*", V("qz"), V("x")), Bin("*", V("qx"),
          V("z")))),
      Let("uvz", Bin("-", Bin("*", V("qx"), V("y")), Bin("*", V("qy"),
          V("x")))),
      Let("uuvx", Bin("-", Bin("*", V("qy"), V("uvz")), Bin("*", V("qz"),
          V("uvy")))),
      Let("uuvy", Bin("-", Bin("*", V("qz"), V("uvx")), Bin("*", V("qx"),
          V("uvz")))),
      Let("uuvz", Bin("-", Bin("*", V("qx"), V("uvy")), Bin("*", V("qy"),
          V("uvx")))),
      Let("w2", Bin("*", V("qw"), Lit(Num(2)))),
      Let("uvx", Bin("*", V("uvx"), V("w2"))),
      Let("uvy", Bin("*", V("uvy"), V("w2"))),
      Let("uvz", Bin("*", V("uvz"), V("w2"))),
      Let("uuvx", Bin("*", V("uuvx"), Lit(Num(2)))),
      Let("uuvy", Bin("*", V("uuvy"), Lit(Num(2)))),
      Let("uuvz", Bin("*", V("uuvz"), Lit(Num(2)))),
      Set("out", 0, Bin("+", Bin("+", V("x"), V("uvx")), V("uuvx"))),
      Set("out", 1, Bin("+", Bin("+", V("y"), V("uvy")), V("uuvy"))),
      Set("out", 2, Bin("+", Bin("+", V("z"), V("uvz")), V("uuvz")))>>)

\* vec3.angle (src/unnamed/part_000, lines 613-623)
vec3_angle ==
  Fn(<<"a", "b">>, "number",
    <<Let("ax", Ix("a", 0)),
      Let("ay", Ix("a", 1)),
      Let("az", Ix("a", 2)),
      Let("bx", Ix("b", 0)),
      Let("by", Ix("b", 1)),
      Let("bz", Ix("b", 2)),
      Let("mag", Math1("sqrt", Bin("*", Bin("+", Bin("+", Bin("*", V("ax"),
          V("ax")), Bin("*", V("ay"), V("ay"))), Bin("*", V("az"), V("az"))),
          Bin("+", Bin("+", Bin("*", V("bx"), V("bx")), Bin("*", V("by"),
          V("by"))), Bin("*", V("bz"), V("bz")))))),
      Let("cosine", Bin("&&n", V("mag"), Bin("/", Call("vec3.dot", <<V("a"),
          V("b")>>), V("mag")))),
      Return(Math1("acos", Math2("min", Math2("max", V("cosine"),
          Lit(Num(-1))), Lit(One))))>>)

\* vec3.exactEquals (src/unnamed/part_000, lines 643-645)
vec3_exactEquals ==
  Fn(<<"a", "b">>, "boolean",
    <<Return(Bin("&&", Bin("&&", Bin("===", Ix("a", 0), Ix("b", 0)),
        Bin("===", Ix("a", 1), Ix("b", 1))), Bin("===", Ix("a", 2), Ix("b",
        2))))>>)

\* vec3.equals (src/unnamed/part_000, lines 654-669)
vec3_equals ==
  Fn(<<"a", "b">>, "boolean",
    <<Let("a0", Ix("a", 0)),
      Let("a1", Ix("a", 1)),
      Let("a2", Ix("a", 2)),
      Let("b0", Ix("b", 0)),
      Let("b1", Ix("b", 1)),
      Let("b2", Ix("b", 2)),
      Return(Bin("&&", Bin("&&", Bin("<=", Math1("abs", Bin("-", V("a0"),
          V("b0"))), Bin("*", Lit(Rat(1, 1000000)), Math2("max", Lit(One),
          Math2("max", Math1("abs", V("a0")), Math1("abs", V("b0")))))),
          Bin("<=", Math1("abs", Bin("-", V("a1"), V("b1"))), Bin("*",
          Lit(Rat(1, 1000000)), Math2("max", Lit(One), Math2("max",
          Math1("abs", V("a1")), Math1("abs", V("b1"))))))), Bin("<=",
          Math1("abs", Bin("-", V("a2"), V("b2"))), Bin("*", Lit(Rat(1,
          1000000)), Math2("max", Lit(One), Math2("max", Math1("abs",
          V("a2")), Math1("abs", V("b2"))))))))>>)

\* random1, random2, ... are what the calls of Math.random return, in the
\* order the body makes them: whoever calls the function picks them.
\* vec3.random (src/unnamed/part_000, lines 466-473)
vec3_random ==
  Fn(<<"out", "random1", "random2">>, "void",
    <<Let("r", Bin("*", Bin("*", V("random1"), Lit(Num(2))), Lit(PI))),
      Let("z", Bin("-", Bin("*", V("random2"), Lit(Num(2))), Lit(One))),
      Set("out", 0, Math1("cos", V("r"))),
      Set("out", 1, Math1("sin", V("r"))),
      Set("out", 2, V("z"))>>)

\* vec4.copy (src/src/f32/vec4_32.ts, lines 56-61)
vec4_copy ==
  Fn(<<"out", "a">>, "void",
    <<Set("out", 0, Ix("a", 0)),
      Set("out", 1, Ix("a", 1)),
      Set("out", 2, Ix("a", 2)),
      Set("out", 3, Ix("a", 3))>>)

\* vec4.scale (src/src/f32/vec4_32.ts, lines 209-214)
vec4_scale ==
  Fn(<<"out", "a", "b">>, "void",
    <<Set("out", 0, Bin("*", Ix("a", 0), V("b"))),
      Set("out", 1, Bin("*", Ix("a", 1), V("b"))),
      Set("out", 2, Bin("*", Ix("a", 2), V("b"))),
      Set("out", 3, Bin("*", Ix("a", 3), V("b")))>>)

\* vec4.length (src/src/f32/vec4_32.ts, lines 267-273)
vec4_length ==
  Fn(<<"a">>, "number",
    <<Let("x", Ix("a", 0)),
      Let("y", Ix("a", 1)),
      Let("z", Ix("a", 2)),
      Let("w", Ix("a", 3)),
      Return(Math1("sqrt", Bin("+", Bin("+", Bin("+", Bin("*", V("x"),
          V("x")), Bin("*", V("y"), V("y"))), Bin("*", V("z"), V("z"))),
          Bin("*", V("w"), V("w")))))>>)

\* vec4.squaredLength (src/src/f32/vec4_32.ts, lines 281-287)
vec4_squaredLength ==
  Fn(<<"a">>, "number",
    <<Let("x", Ix("a", 0)),
      Let("y", Ix("a", 1)),
      Let("z", Ix("a", 2)),
      Let("w", Ix("a", 3)),
      Return(Bin("+", Bin("+", Bin("+", Bin("*", V("x"), V("x")), Bin("*",
          V("y"), V("y"))), Bin("*", V("z"), V("z"))), Bin("*", V("w"),
          V("w"))))>>)

\* vec4.normalize (src/src/f32/vec4_32.ts, lines 321-334)
vec4_normalize ==
  Fn(<<"out", "a">>, "void",
    <<Let("x", Ix("a", 0)),
      Let("y", Ix("a", 1)),
      Let("z", Ix("a", 2)),
      Let("w", Ix("a", 3)),
      Let("len", Bin("+", Bin("+", Bin("+", Bin("*", V("x"), V("x")),
          Bin("*", V("y"), V("y"))), Bin("*", V("z"), V("z"))), Bin("*",
          V("w"), V("w")))),
      If(Bin(">", V("len"), Lit(Zero)),
        <<Let("len", Bin("/", Lit(One), Math1("sqrt", V("len"))))>>,
        <<>>),
      Set("out", 0, Bin("*", V("x"), V("len"))),
      Set("out", 1, Bin("*", V("y"), V("len"))),
      Set("out", 2, Bin("*", V("z"), V("len"))),
      Set("out", 3, Bin("*", V("w"), V("len")))>>)

\* vec4.dot (src/src/f32/vec4_32.ts, lines 343-345)
vec4_dot ==
  Fn(<<"a", "b">>, "number",
    <<Return(Bin("+", Bin("+", Bin("+", Bin("*", Ix("a", 0), Ix("b", 0)),
        Bin("*", Ix("a", 1), Ix("b", 1))), Bin("*", Ix("a", 2), Ix("b", 2))),
        Bin("*", Ix("a", 3), Ix("b", 3))))>>)

\* vec4.cross (src/src/f32/vec4_32.ts, lines 355-371)
vec4_cross ==
  Fn(<<"out", "u", "v", "w">>, "void",
    <<Let("A", Bin("-", Bin("*", Ix("v", 0), Ix("w", 1)), Bin("*", Ix("v",
        1), Ix("w", 0)))),
      Let("B", Bin("-", Bin("*", Ix("v", 0), Ix("w", 2)), Bin("*", Ix("v",
          2), Ix("w", 0)))),
      Let("C", Bin("-", Bin("*", Ix("v", 0), Ix("w", 3)), Bin("*", Ix("v",
          3), Ix("w", 0)))),
      Let("D", Bin("-", Bin("*", Ix("v", 1), Ix("w", 2)), Bin("*", Ix("v",
          2), Ix("w", 1)))),
      Let("E", Bin("-", Bin("*", Ix("v", 1), Ix("w", 3)), Bin("*", Ix("v",
          3), Ix("w", 1)))),
      Let("F", Bin("-", Bin("*", Ix("v", 2), Ix("w", 3)), Bin("*", Ix("v",
          3), Ix("w", 2)))),
      Let("G", Ix("u", 0)),
      Let("H", Ix("u", 1)),
      Let("I", Ix("u", 2)),
      Let("J", Ix("u", 3)),
      Set("out", 0, Bin("+", Bin("-", Bin("*", V("H"), V("F")), Bin("*",
          V("I"), V("E"))), Bin("*", V("J"), V("D")))),
      Set("out", 1, Bin("-", Bin("+", Un("-", Bin("*", V("G"), V("F"))),
          Bin("*", V("I"), V("C"))), Bin("*", V("J"), V("B")))),
      Set("out", 2, Bin("+", Bin("-", Bin("*", V("G"), V("E")), Bin("*",
          V("H"), V("C"))), Bin("*", V("J"), V("A")))),
      Set("out", 3, Bin("-", Bin("+", Un("-", Bin("*", V("G"), V("D"))),
          Bin("*", V("H"), V("B"))), Bin("*", V("I"), V("A"))))>>)

\* vec4.transformMat4 (src/src/f32/vec4_32.ts, lines 425-434)
vec4_transformMat4 ==
  Fn(<<"out", "a", "m">>, "void",
    <<Let("x", Ix("a", 0)),
      Let("y", Ix("a", 1)),
      Let("z", Ix("a", 2)),
      Let("w", Ix("a", 3)),
      Set("out", 0, Bin("+", Bin("+", Bin("+", Bin("*", Ix("m", 0), V("x")),
          Bin("*", Ix("m", 4), V("y"))), Bin("*", Ix("m", 8), V("z"))),
          Bin("*", Ix("m", 12), V("w")))),
      Set("out", 1, Bin("+", Bin("+", Bin("+", Bin("*", Ix("m", 1), V("x")),
          Bin("*", Ix("m", 5), V("y"))), Bin("*", Ix("m", 9), V("z"))),
          Bin("*", Ix("m", 13), V("w")))),
      Set("out", 2, Bin("+", Bin("+", Bin("+", Bin("*", Ix("m", 2), V("x")),
          Bin("*", Ix("m", 6), V("y"))), Bin("*", Ix("m", 10), V("z"))),
          Bin("*", Ix("m", 14), V("w")))),
      Set("out", 3, Bin("+", Bin("+", Bin("+", Bin("*", Ix("m", 3), V("x")),
          Bin("*", Ix("m", 7), V("y"))), Bin("*", Ix("m", 11), V("z"))),
          Bin("*", Ix("m", 15), V("w"))))>>)

\* vec4.transformQuat (src/src/f32/vec4_32.ts, lines 443-463)
vec4_transformQuat ==
  Fn(<<"out", "a", "q">>, "void",
    <<Let("x", Ix("a", 0)),
      Let("y", Ix("a", 1)),
      Let("z", Ix("a", 2)),
      Let("qx", Ix("q", 0)),
      Let("qy", Ix("q", 1)),
      Let("qz", Ix("q", 2)),
      Let("qw", Ix("q", 3)),
      Let("ix", Bin("-", Bin("+", Bin("*", V("qw"), V("x")), Bin("*",
          V("qy"), V("z"))), Bin("*", V("qz"), V("y")))),
      Let("iy", Bin("-", Bin("+", Bin("*", V("qw"), V("y")), Bin("*",
          V("qz"), V("x"))), Bin("*", V("qx"), V("z")))),
      Let("iz", Bin("-", Bin("+", Bin("*", V("qw"), V("z")), Bin("*",
          V("qx"), V("y"))), Bin("*", V("qy"), V("x")))),
      Let("iw", Bin("-", Bin("-", Bin("*", Un("-", V("qx")), V("x")),
          Bin("*", V("qy"), V("y"))), Bin("*", V("qz"), V("z")))),
      Set("out", 0, Bin("-", Bin("+", Bin("+", Bin("*", V("ix"), V("qw")),
          Bin("*", V("iw"), Un("-", V("qx")))), Bin("*", V("iy"), Un("-",
          V("qz")))), Bin("*", V("iz"), Un("-", V("qy"))))),
      Set("out", 1, Bin("-", Bin("+", Bin("+", Bin("*", V("iy"), V("qw")),
          Bin("*", V("iw"), Un("-", V("qy")))), Bin("*", V("iz"), Un("-",
          V("qx")))), Bin("*", V("ix"), Un("-", V("qz"))))),
      Set("out", 2, Bin("-", Bin("+", Bin("+", Bin("*", V("iz"), V("qw")),
          Bin("*", V("iw"), Un("-", V("qz")))), Bin("*", V("ix"), Un("-",
          V("qy")))), Bin("*", V("iy"), Un("-", V("qx"))))),
      Set("out", 3, Ix("a", 3))>>)

\* vec4.exactEquals (src/src/f32/vec4_32.ts, lines 484-486)
vec4_exactEquals ==
  Fn(<<"a", "b">>, "boolean",
    <<Return(Bin("&&", Bin("&&", Bin("&&", Bin("===", Ix("a", 0), Ix("b",
        0)), Bin("===", Ix("a", 1), Ix("b", 1))), Bin("===", Ix("a", 2),
        Ix("b", 2))), Bin("===", Ix("a", 3), Ix("b", 3))))>>)

\* vec4.equals (src/src/f32/vec4_32.ts, lines 495-514)
vec4_equals ==
  Fn(<<"a", "b">>, "boolean",
    <<Let("a0", Ix("a", 0)),
      Let("a1", Ix("a", 1)),
      Let("a2", Ix("a", 2)),
      Let("a3", Ix("a", 3)),
      Let("b0", Ix("b", 0)),
      Let("b1", Ix("b", 1)),
      Let("b2", Ix("b", 2)),
      Let("b3", Ix("b", 3)),
      Return(Bin("&&", Bin("&&", Bin("&&", Bin("<=", Math1("abs", Bin("-",
          V("a0"), V("b0"))), Bin("*", Lit(Rat(1, 1000000)), Math2("max",
          Lit(One), Math2("max", Math1("abs", V("a0")), Math1("abs",
          V("b0")))))), Bin("<=", Math1("abs", Bin("-", V("a1"), V("b1"))),
          Bin("*", Lit(Rat(1, 1000000)), Math2("max", Lit(One), Math2("max",
          Math1("abs", V("a1")), Math1("abs", V("b1"))))))), Bin("<=",
          Math1("abs", Bin("-", V("a2"), V("b2"))), Bin("*", Lit(Rat(1,
          1000000)), Math2("max", Lit(One), Math2("max", Math1("abs",
          V("a2")), Math1("abs", V("b2"))))))), Bin("<=", Math1("abs",
          Bin("-", V("a3"), V("b3"))), Bin("*", Lit(Rat(1, 1000000)),
          Math2("max", Lit(One), Math2("max", Math1("abs", V("a3")),
          Math1("abs", V("b3"))))))))>>)

\* quat.identity (src/src/f32/quat.ts, lines 27-32)
quat_identity ==
  Fn(<<"out">>, "void",
    <<Set("out", 0, Lit(Zero)),
      Set("out", 1, Lit(Zero)),
      Set("out", 2, Lit(Zero)),
      Set("out", 3, Lit(One))>>)

\* quat.setAxisAngle (src/src/f32/quat.ts, lines 42-49)
quat_setAxisAngle ==
  Fn(<<"out", "axis", "rad">>, "void",
    <<Let("rad", Bin("*", V("rad"), Lit(Rat(1, 2)))),
      Let("s", Math1("sin", V("rad"))),
      Set("out", 0, Bin("*", V("s"), Ix("axis", 0))),
      Set("out", 1, Bin("*", V("s"), Ix("axis", 1))),
      Set("out", 2, Bin("*", V("s"), Ix("axis", 2))),
      Set("out", 3, Math1("cos", V("rad")))>>)

\* quat.getAxisAngle (src/src/f32/quat.ts, lines 64-78)
quat_getAxisAngle ==
  Fn(<<"out_axis", "q">>, "number",
    <<Let("rad", Bin("*", Math1("acos", Ix("q", 3)), Lit(Num(2)))),
      Let("s", Math1("sin", Bin("/", V("rad"), Lit(Num(2))))),
      If(Bin(">", V("s"), Lit(Rat(1, 1000000))),
        <<Set("out_axis", 0, Bin("/", Ix("q", 0), V("s"))),
          Set("out_axis", 1, Bin("/", Ix("q", 1), V("s"))),
          Set("out_axis", 2, Bin("/", Ix("q", 2), V("s")))>>,
        <<Set("out_axis", 0, Lit(One)),
          Set("out_axis", 1, Lit(Zero)),
          Set("out_axis", 2, Lit(Zero))>>),
      Return(V("rad"))>>)

\* quat.getAngle (src/src/f32/quat.ts, lines 87-91)
quat_getAngle ==
  Fn(<<"a", "b">>, "number",
    <<Let("dotproduct", Call("vec4.dot", <<V("a"), V("b")>>)),
      Return(Math1("acos", Bin("-", Bin("*", Bin("*", Lit(Num(2)),
          V("dotproduct")), V("dotproduct")), Lit(One))))>>)

\* quat.multiply (src/src/f32/quat.ts, lines 100-114)
quat_multiply ==
  Fn(<<"out", "a", "b">>, "void",
    <<Let("ax", Ix("a", 0)),
      Let("ay", Ix("a", 1)),
      Let("az", Ix("a", 2)),
      Let("aw", Ix("a", 3)),
      Let("bx", Ix("b", 0)),
      Let("by", Ix("b", 1)),
      Let("bz", Ix("b", 2)),
      Let("bw", Ix("b", 3)),
      Set("out", 0, Bin("-", Bin("+", Bin("+", Bin("*", V("ax"), V("bw")),
          Bin("*", V("aw"), V("bx"))), Bin("*", V("ay"), V("bz"))), Bin("*",
          V("az"), V("by")))),
      Set("out", 1, Bin("-", Bin("+", Bin("+", Bin("*", V("ay"), V("bw")),
          Bin("*", V("aw"), V("by"))), Bin("*", V("az"), V("bx"))), Bin("*",
          V("ax"), V("bz")))),
      Set("out", 2, Bin("-", Bin("+", Bin("+", Bin("*", V("az"), V("bw")),
          Bin("*", V("aw"), V("bz"))), Bin("*", V("ax"), V("by"))), Bin("*",
          V("ay"), V("bx")))),
      Set("out", 3, Bin("-", Bin("-", Bin("-", Bin("*", V("aw"), V("bw")),
          Bin("*", V("ax"), V("bx"))), Bin("*", V("ay"), V("by"))), Bin("*",
          V("az"), V("bz"))))>>)

\* quat.rotateX (src/src/f32/quat.ts, lines 123-137)
quat_rotateX ==
  Fn(<<"out", "a", "rad">>, "void",
    <<Let("rad", Bin("*", V("rad"), Lit(Rat(1, 2)))),
      Let("ax", Ix("a", 0)),
      Let("ay", Ix("a", 1)),
      Let("az", Ix("a", 2)),
      Let("aw", Ix("a", 3)),
      Let("bx", Math1("sin", V("rad"))),
      Let("bw", Math1("cos", V("rad"))),
      Set("out", 0, Bin("+", Bin("*", V("ax"), V("bw")), Bin("*", V("aw"),
          V("bx")))),
      Set("out", 1, Bin("+", Bin("*", V("ay"), V("bw")), Bin("*", V("az"),
          V("bx")))),
      Set("out", 2, Bin("-", Bin("*", V("az"), V("bw")), Bin("*", V("ay"),
          V("bx")))),
      Set("out", 3, Bin("-", Bin("*", V("aw"), V("bw")), Bin("*", V("ax"),
          V("bx"))))>>)

\* quat.rotateY (src/src/f32/quat.ts, lines 146-160)
quat_rotateY ==
  Fn(<<"out", "a", "rad">>, "void",
    <<Let("rad", Bin("*", V("rad"), Lit(Rat(1, 2)))),
      Let("ax", Ix("a", 0)),
      Let("ay", Ix("a", 1)),
      Let("az", Ix("a", 2)),
      Let("aw", Ix("a", 3)),
      Let("by", Math1("sin", V("rad"))),
      Let("bw", Math1("cos", V("rad"))),
      Set("out", 0, Bin("-", Bin("*", V("ax"), V("bw")), Bin("*", V("az"),
          V("by")))),
      Set("out", 1, Bin("+", Bin("*", V("ay"), V("bw")), Bin("*", V("aw"),
          V("by")))),
      Set("out", 2, Bin("+", Bin("*", V("az"), V("bw")), Bin("*", V("ax"),
          V("by")))),
      Set("out", 3, Bin("-", Bin("*", V("aw"), V("bw")), Bin("*", V("ay"),
          V("by"))))>>)

\* quat.rotateZ (src/src/f32/quat.ts, lines 169-183)
quat_rotateZ ==
  Fn(<<"out", "a", "rad">>, "void",
    <<Let("rad", Bin("*", V("rad"), Lit(Rat(1, 2)))),
      Let("ax", Ix("a", 0)),
      Let("ay", Ix("a", 1)),
      Let("az", Ix("a", 2)),
      Let("aw", Ix("a", 3)),
      Let("bz", Math1("sin", V("rad"))),
      Let("bw", Math1("cos", V("rad"))),
      Set("out", 0, Bin("+", Bin("*", V("ax"), V("bw")), Bin("*", V("ay"),
          V("bz")))),
      Set("out", 1, Bin("-", Bin("*", V("ay"), V("bw")), Bin("*", V("ax"),
          V("bz")))),
      Set("out", 2, Bin("+", Bin("*", V("az"), V("bw")), Bin("*", V("aw"),
          V("bz")))),
      Set("out", 3, Bin("-", Bin("*", V("aw"), V("bw")), Bin("*", V("az"),
          V("bz"))))>>)

\* quat.exp (src/src/f32/quat.ts, lines 210-224)
quat_exp ==
  Fn(<<"out", "a">>, "void",
    <<Let("x", Ix("a", 0)),
      Let("y", Ix("a", 1)),
      Let("z", Ix("a", 2)),
      Let("w", Ix("a", 3)),
      Let("r", Math1("sqrt", Bin("+", Bin("+", Bin("*", V("x"), V("x")),
          Bin("*", V("y"), V("y"))), Bin("*", V("z"), V("z"))))),
      Let("et", Math1("exp", V("w"))),
      Let("s", Cond(Bin(">", V("r"), Lit(Zero)), Bin("/", Bin("*", V("et"),
          Math1("sin", V("r"))), V("r")), Lit(Zero))),
      Set("out", 0, Bin("*", V("x"), V("s"))),
      Set("out", 1, Bin("*", V("y"), V("s"))),
      Set("out", 2, Bin("*", V("z"), V("s"))),
      Set("out", 3, Bin("*", V("et"), Math1("cos", V("r"))))>>)

\* quat.ln (src/src/f32/quat.ts, lines 232-245)
quat_ln ==
  Fn(<<"out", "a">>, "void",
    <<Let("x", Ix("a", 0)),
      Let("y", Ix("a", 1)),
      Let("z", Ix("a", 2)),
      Let("w", Ix("a", 3)),
      Let("r", Math1("sqrt", Bin("+", Bin("+", Bin("*", V("x"), V("x")),
          Bin("*", V("y"), V("y"))), Bin("*", V("z"), V("z"))))),
      Let("t", Cond(Bin(">", V("r"), Lit(Zero)), Bin("/", Math2("atan2",
          V("r"), V("w")), V("r")), Lit(Zero))),
      Set("out", 0, Bin("*", V("x"), V("t"))),
      Set("out", 1, Bin("*", V("y"), V("t"))),
      Set("out", 2, Bin("*", V("z"), V("t"))),
      Set("out", 3, Bin("*", Lit(Rat(1, 2)), Math1("log", Bin("+", Bin("+",
          Bin("+", Bin("*", V("x"), V("x")), Bin("*", V("y"), V("y"))),
          Bin("*", V("z"), V("z"))), Bin("*", V("w"), V("w"))))))>>)

\* quat.pow (src/src/f32/quat.ts, lines 254-258)
quat_pow ==
  Fn(<<"out", "a", "b">>, "void",
    <<Do("quat.ln", <<V("out"), V("a")>>),
      Do("vec4.scale", <<V("out"), V("out"), V("b")>>),
      Do("quat.exp", <<V("out"), V("out")>>)>>)

\* quat.slerp (src/src/f32/quat.ts, lines 268-310)
quat_slerp ==
  Fn(<<"out", "a", "b", "t">>, "void",
    <<Let("ax", Ix("a", 0)),
      Let("ay", Ix("a", 1)),
      Let("az", Ix("a", 2)),
      Let("aw", Ix("a", 3)),
      Let("bx", Ix("b", 0)),
      Let("by", Ix("b", 1)),
      Let("bz", Ix("b", 2)),
      Let("bw", Ix("b", 3)),
      Let("cosom", Bin("+", Bin("+", Bin("+", Bin("*", V("ax"), V("bx")),
          Bin("*", V("ay"), V("by"))), Bin("*", V("az"), V("bz"))), Bin("*",
          V("aw"), V("bw")))),
      If(Bin("<", V("cosom"), Lit(Zero)),
        <<Let("cosom", Un("-", V("cosom"))),
          Let("bx", Un("-", V("bx"))),
          Let("by", Un("-", V("by"))),
          Let("bz", Un("-", V("bz"))),
          Let("bw", Un("-", V("bw")))>>,
        <<>>),
      Let("scale0", Lit(Zero)),
      Let("scale1", Lit(Zero)),
      If(Bin(">", Bin("-", Lit(One), V("cosom")), Lit(Rat(1, 1000000))),
        <<Let("omega", Math1("acos", V("cosom"))),
          Let("sinom", Math1("sin", V("omega"))),
          Let("scale0", Bin("/", Math1("sin", Bin("*", Bin("-", Lit(One),
              V("t")), V("omega"))), V("sinom"))),
          Let("scale1", Bin("/", Math1("sin", Bin("*", V("t"), V("omega"))),
              V("sinom")))>>,
        <<Let("scale0", Bin("-", Lit(One), V("t"))),
          Let("scale1", V("t"))>>),
      Set("out", 0, Bin("+", Bin("*", V("scale0"), V("ax")), Bin("*",
          V("scale1"), V("bx")))),
      Set("out", 1, Bin("+", Bin("*", V("scale0"), V("ay")), Bin("*",
          V("scale1"), V("by")))),
      Set("out", 2, Bin("+", Bin("*", V("scale0"), V("az")), Bin("*",
          V("scale1"), V("bz")))),
      Set("out", 3, Bin("+", Bin("*", V("scale0"), V("aw")), Bin("*",
          V("scale1"), V("bw"))))>>)

\* quat.invert (src/src/f32/quat.ts, lines 339-353)
quat_invert ==
  Fn(<<"out", "a">>, "void",
    <<Let("a0", Ix("a", 0)),
      Let("a1", Ix("a", 1)),
      Let("a2", Ix("a", 2)),
      Let("a3", Ix("a", 3)),
      Let("dot", Bin("+", Bin("+", Bin("+", Bin("*", V("a0"), V("a0")),
          Bin("*", V("a1"), V("a1"))), Bin("*", V("a2"), V("a2"))), Bin("*",
          V("a3"), V("a3")))),
      Let("invDot", Cond(Un("ToBoolean", V("dot")), Bin("/", Lit(One),
          V("dot")), Lit(Zero))),
      Set("out", 0, Bin("*", Un("-", V("a0")), V("invDot"))),
      Set("out", 1, Bin("*", Un("-", V("a1")), V("invDot"))),
      Set("out", 2, Bin("*", Un("-", V("a2")), V("invDot"))),
      Set("out", 3, Bin("*", V("a3"), V("invDot")))>>)

\* quat.conjugate (src/src/f32/quat.ts, lines 362-367)
quat_conjugate ==
  Fn(<<"out", "a">>, "void",
    <<Set("out", 0, Un("-", Ix("a", 0))),
      Set("out", 1, Un("-", Ix("a", 1))),
      Set("out", 2, Un("-", Ix("a", 2))),
      Set("out", 3, Ix("a", 3))>>)

\* quat.fromEuler (src/src/f32/quat.ts, lines 379-438)
quat_fromEuler ==
  Fn(<<"out", "x", "y", "z", "order">>, "void",
    <<Default("order", "ZYX"),
      Let("halfToRad", Bin("/", Lit(PI), Lit(Num(360)))),
      Let("x", Bin("*", V("x"), V("halfToRad"))),
      Let("z", Bin("*", V("z"), V("halfToRad"))),
      Let("y", Bin("*", V("y"), V("halfToRad"))),
      Let("sx", Math1("sin", V("x"))),
      Let("cx", Math1("cos", V("x"))),
      Let("sy", Math1("sin", V("y"))),
      Let("cy", Math1("cos", V("y"))),
      Let("sz", Math1("sin", V("z"))),
      Let("cz", Math1("cos", V("z"))),
      Switch("order",
      [XYZ |->
        <<Set("out", 0, Bin("+", Bin("*", Bin("*", V("sx"), V("cy")),
            V("cz")), Bin("*", Bin("*", V("cx"), V("sy")), V("sz")))),
          Set("out", 1, Bin("-", Bin("*", Bin("*", V("cx"), V("sy")),
              V("cz")), Bin("*", Bin("*", V("sx"), V("cy")), V("sz")))),
          Set("out", 2, Bin("+", Bin("*", Bin("*", V("cx"), V("cy")),
              V("sz")), Bin("*", Bin("*", V("sx"), V("sy")), V("cz")))),
          Set("out", 3, Bin("-", Bin("*", Bin("*", V("cx"), V("cy")),
              V("cz")), Bin("*", Bin("*", V("sx"), V("sy")), V("sz"))))>>,
      XZY |->
        <<Set("out", 0, Bin("-", Bin("*", Bin("*", V("sx"), V("cy")),
            V("cz")), Bin("*", Bin("*", V("cx"), V("sy")), V("sz")))),
          Set("out", 1, Bin("-", Bin("*", Bin("*", V("cx"), V("sy")),
              V("cz")), Bin("*", Bin("*", V("sx"), V("cy")), V("sz")))),
          Set("out", 2, Bin("+", Bin("*", Bin("*", V("cx"), V("cy")),
              V("sz")), Bin("*", Bin("*", V("sx"), V("sy")), V("cz")))),
          Set("out", 3, Bin("+", Bin("*", Bin("*", V("cx"), V("cy")),
              V("cz")), Bin("*", Bin("*", V("sx"), V("sy")), V("sz"))))>>,
      YXZ |->
        <<Set("out", 0, Bin("+", Bin("*", Bin("*", V("sx"), V("cy")),
            V("cz")), Bin("*", Bin("*", V("cx"), V("sy")), V("sz")))),
          Set("out", 1, Bin("-", Bin("*", Bin("*", V("cx"), V("sy")),
              V("cz")), Bin("*", Bin("*", V("sx"), V("cy")), V("sz")))),
          Set("out", 2, Bin("-", Bin("*", Bin("*", V("cx"), V("cy")),
              V("sz")), Bin("*", Bin("*", V("sx"), V("sy")), V("cz")))),
          Set("out", 3, Bin("+", Bin("*", Bin("*", V("cx"), V("cy")),
              V("cz")), Bin("*", Bin("*", V("sx"), V("sy")), V("sz"))))>>,
      YZX |->
        <<Set("out", 0, Bin("+", Bin("*", Bin("*", V("sx"), V("cy")),
            V("cz")), Bin("*", Bin("*", V("cx"), V("sy")), V("sz")))),
          Set("out", 1, Bin("+", Bin("*", Bin("*", V("cx"), V("sy")),
              V("cz")), Bin("*", Bin("*", V("sx"), V("cy")), V("sz")))),
          Set("out", 2, Bin("-", Bin("*", Bin("*", V("cx"), V("cy")),
              V("sz")), Bin("*", Bin("*", V("sx"), V("sy")), V("cz")))),
          Set("out", 3, Bin("-", Bin("*", Bin("*", V("cx"), V("cy")),
              V("cz")), Bin("*", Bin("*", V("sx"), V("sy")), V("sz"))))>>,
      ZXY |->
        <<Set("out", 0, Bin("-", Bin("*", Bin("*", V("sx"), V("cy")),
            V("cz")), Bin("*", Bin("*", V("cx"), V("sy")), V("sz")))),
          Set("out", 1, Bin("+", Bin("*", Bin("*", V("cx"), V("sy")),
              V("cz")), Bin("*", Bin("*", V("sx"), V("cy")), V("sz")))),
          Set("out", 2, Bin("+", Bin("*", Bin("*", V("cx"), V("cy")),
              V("sz")), Bin("*", Bin("*", V("sx"), V("sy")), V("cz")))),
          Set("out", 3, Bin("-", Bin("*", Bin("*", V("cx"), V("cy")),
              V("cz")), Bin("*", Bin("*", V("sx"), V("sy")), V("sz"))))>>,
      ZYX |->
        <<Set("out", 0, Bin("-", Bin("*", Bin("*", V("sx"), V("cy")),
            V("cz")), Bin("*", Bin("*", V("cx"), V("sy")), V("sz")))),
          Set("out", 1, Bin("+", Bin("*", Bin("*", V("cx"), V("sy")),
              V("cz")), Bin("*", Bin("*", V("sx"), V("cy")), V("sz")))),
          Set("out", 2, Bin("-", Bin("*", Bin("*", V("cx"), V("cy")),
              V("sz")), Bin("*", Bin("*", V("sx"), V("sy")), V("cz")))),
          Set("out", 3, Bin("+", Bin("*", Bin("*", V("cx"), V("cy")),
              V("cz")), Bin("*", Bin("*", V("sx"), V("sy")), V("sz"))))>>],
        <<Throw>>)>>)

\* quat.equals (src/src/f32/quat.ts, lines 449-451)
quat_equals ==
  Fn(<<"a", "b">>, "boolean",
    <<Return(Bin(">=", Math1("abs", Call("vec4.dot", <<V("a"), V("b")>>)),
        Bin("-", Lit(One), Lit(Rat(1, 1000000)))))>>)

\* quat.rotationTo (src/src/f32/quat.ts, lines 463-489)
quat_rotationTo ==
  Fn(<<"out", "a", "b">>, "void",
    <<Let("dot", Call("vec3.dot", <<V("a"), V("b")>>)),
      If(Bin("<", V("dot"), Un("-", Lit(Rat(999999, 1000000)))),
        <<Do("vec3.cross", <<V("tmpvec3"), V("xUnitVec3"), V("a")>>),
          If(Bin("<", Call("vec3.length", <<V("tmpvec3")>>), Lit(Rat(1,
              1000000))),
            <<Do("vec3.cross", <<V("tmpvec3"), V("yUnitVec3"), V("a")>>)>>,
            <<>>),
          Do("vec3.normalize", <<V("tmpvec3"), V("tmpvec3")>>),
          Do("quat.setAxisAngle", <<V("out"), V("tmpvec3"), Lit(PI)>>)>>,
        <<If(Bin(">", V("dot"), Lit(Rat(999999, 1000000))),
            <<Set("out", 0, Lit(Zero)),
              Set("out", 1, Lit(Zero)),
              Set("out", 2, Lit(Zero)),
              Set("out", 3, Lit(One))>>,
            <<Do("vec3.cross", <<V("tmpvec3"), V("a"), V("b")>>),
              Set("out", 0, Ix("tmpvec3", 0)),
              Set("out", 1, Ix("tmpvec3", 1)),
              Set("out", 2, Ix("tmpvec3", 2)),
              Set("out", 3, Bin("+", Lit(One), V("dot"))),
              Do("vec4.normalize", <<V("out"), V("out")>>)>>)>>)>>)

\* quat.sqlerp (src/src/f32/quat.ts, lines 501-510)
quat_sqlerp ==
  Fn(<<"out", "a", "b", "c", "d", "t">>, "void",
    <<Do("quat.slerp", <<V("temp1"), V("a"), V("d"), V("t")>>),
      Do("quat.slerp", <<V("temp2"), V("b"), V("c"), V("t")>>),
      Do("quat.slerp", <<V("out"), V("temp1"), V("temp2"), Bin("*", Bin("*",
          Lit(Num(2)), V("t")), Bin("-", Lit(One), V("t")))>>)>>)

\* assert_64 (src/unnamed/part_008, lines 1-5)
assert_64 ==
  Fn(<<"val">>, "void",
    <<If(Un("!", InstanceOf("val", "Float64Array")),
        <<Throw>>,
        <<>>)>>)

\* assert_32 (src/unnamed/part_004, lines 377-381)
assert_32 ==
  Fn(<<"val">>, "void",
    <<If(Un("!", InstanceOf("val", "Float32Array")),
        <<Throw>>,
        <<>>)>>)

\* vec3_64e.add (src/src/f64-enforce/vec3_64e.ts, lines 65-70)
vec3_64e_add ==
  Fn(<<"out", "a", "b">>, "void",
    <<Do("assert_64", <<V("out")>>),
      Do("assert_64", <<V("a")>>),
      Do("assert_64", <<V("b")>>),
      Do("vec3.add", <<V("out"), V("a"), V("b")>>)>>)

\* vec3_64e.dot (src/src/f64-enforce/vec3_64e.ts, lines 286-290)
vec3_64e_dot ==
  Fn(<<"a", "b">>, "number",
    <<Do("assert_64", <<V("a")>>),
      Do("assert_64", <<V("b")>>),
      ReturnDo("vec3.dot", <<V("a"), V("b")>>)>>)

\* vec3_64e.transformQuat (src/src/f64-enforce/vec3_64e.ts, lines 407-412)
vec3_64e_transformQuat ==
  Fn(<<"out", "a", "q">>, "void",
    <<Do("assert_64", <<V("out")>>),
      Do("assert_64", <<V("a")>>),
      Do("assert_64", <<V("q")>>),
      Do("vec3.transformQuat", <<V("out"), V("a"), V("q")>>)>>)

\* quat_32e.getAxisAngle (src/unnamed/part_003, lines 49-53)
quat_32e_getAxisAngle ==
  Fn(<<"out_axis", "q">>, "number",
    <<Do("assert_32", <<V("out_axis")>>),
      Do("assert_32", <<V("q")>>),
      ReturnDo("quat.getAxisAngle", <<V("out_axis"), V("q")>>)>>)

\* quat_32e.fromEuler (src/unnamed/part_003, lines 232-235)
quat_32e_fromEuler ==
  Fn(<<"out", "x", "y", "z", "order">>, "void",
    <<Do("assert_32", <<V("out")>>),
      Do("quat.fromEuler", <<V("out"), V("x"), V("y"), V("z"),
          V("order")>>)>>)

\* quat_32e.slerp (src/unnamed/part_003, lines 180-185)
quat_32e_slerp ==
  Fn(<<"out", "a", "b", "t">>, "void",
    <<Do("assert_32", <<V("out")>>),
      Do("assert_32", <<V("a")>>),
      Do("assert_32", <<V("b")>>),
      Do("quat.slerp", <<V("out"), V("a"), V("b"), V("t")>>)>>)

\* The functions by the names they are called with.
Lib ==
  ("vec3.length" :> vec3_length) @@ ("vec3.copy" :> vec3_copy) @@
  ("vec3.add" :> vec3_add) @@ ("vec3.scale" :> vec3_scale) @@
  ("vec3.distance" :> vec3_distance) @@
  ("vec3.squaredDistance" :> vec3_squaredDistance) @@
  ("vec3.squaredLength" :> vec3_squaredLength) @@
  ("vec3.normalize" :> vec3_normalize) @@ ("vec3.dot" :> vec3_dot) @@
  ("vec3.cross" :> vec3_cross) @@ ("vec3.lerp" :> vec3_lerp) @@
  ("vec3.transformMat4" :> vec3_transformMat4) @@
  ("vec3.transformQuat" :> vec3_transformQuat) @@
  ("vec3.angle" :> vec3_angle) @@ ("vec3.exactEquals" :> vec3_exactEquals) @@
  ("vec3.equals" :> vec3_equals) @@ ("vec3.random" :> vec3_random) @@
  ("vec4.copy" :> vec4_copy) @@ ("vec4.scale" :> vec4_scale) @@
  ("vec4.length" :> vec4_length) @@
  ("vec4.squaredLength" :> vec4_squaredLength) @@
  ("vec4.normalize" :> vec4_normalize) @@ ("vec4.dot" :> vec4_dot) @@
  ("vec4.cross" :> vec4_cross) @@
  ("vec4.transformMat4" :> vec4_transformMat4) @@
  ("vec4.transformQuat" :> vec4_transformQuat) @@
  ("vec4.exactEquals" :> vec4_exactEquals) @@
  ("vec4.equals" :> vec4_equals) @@ ("quat.identity" :> quat_identity) @@
  ("quat.setAxisAngle" :> quat_setAxisAngle) @@
  ("quat.getAxisAngle" :> quat_getAxisAngle) @@
  ("quat.getAngle" :> quat_getAngle) @@ ("quat.multiply" :> quat_multiply) @@
  ("quat.rotateX" :> quat_rotateX) @@ ("quat.rotateY" :> quat_rotateY) @@
  ("quat.rotateZ" :> quat_rotateZ) @@ ("quat.exp" :> quat_exp) @@
  ("quat.ln" :> quat_ln) @@ ("quat.pow" :> quat_pow) @@
  ("quat.slerp" :> quat_slerp) @@ ("quat.invert" :> quat_invert) @@
  ("quat.conjugate" :> quat_conjugate) @@
  ("quat.fromEuler" :> quat_fromEuler) @@ ("quat.equals" :> quat_equals) @@
  ("quat.rotationTo" :> quat_rotationTo) @@ ("quat.sqlerp" :> quat_sqlerp) @@
  ("assert_64" :> assert_64) @@ ("assert_32" :> assert_32) @@
  ("vec3_64e.add" :> vec3_64e_add) @@ ("vec3_64e.dot" :> vec3_64e_dot) @@
  ("vec3_64e.transformQuat" :> vec3_64e_transformQuat) @@
  ("quat_32e.getAxisAngle" :> quat_32e_getAxisAngle) @@
  ("quat_32e.fromEuler" :> quat_32e_fromEuler) @@
  ("quat_32e.slerp" :> quat_32e_slerp)

----------------------------------------------------------------------------
(* The execution of function bodies *)

\* The value of the name x: a parameter or local of the running function,
\* or else a buffer of the enclosing closure, which the name itself denotes.
Lookup(env, x) == IF x \in DOMAIN env THEN env[x] ELSE x

Bind(env, x, v) == (x :> v) @@ env

\* The arithmetic of the engine, as a value.
Arith ==
  [truthy |-> Truthy, eq |-> Eq, neg |-> Neg, add |-> Add, sub |-> Sub,
   mul |-> Mul, div |-> Div, lt |-> Lt, gt |-> Gt, le |-> Le, ge |-> Ge,
   abs |-> Abs, min |-> Min2, max |-> Max2, sqrt |-> Sqrt, cos |-> Cos,
   sin |-> Sin, acos |-> Acos, atan2 |-> Atan2, exp |-> Exp, log |-> Log]

UnOp(n, o, x) ==
  CASE o = "-" -> n.neg[x]
    [] o = "!" -> ~x
    [] o = "ToBoolean" -> n.truthy[x]

\* && and || between numbers give one of their operands, as in JavaScript.
BinOp(n, o, x, y) ==
  CASE o = "+" -> n.add[x, y]
    [] o = "-" -> n.sub[x, y]
    [] o = "*" -> n.mul[x, y]
    [] o = "/" -> n.div[x, y]
    [] o = "<" -> n.lt[x, y]
    [] o = ">" -> n.gt[x, y]
    [] o = "<=" -> n.le[x, y]
    [] o = ">=" -> n.ge[x, y]
    [] o = "===" -> n.eq[x, y]
    [] o = "!==" -> ~n.eq[x, y]
    [] o = "&&" -> x /\ y
    [] o = "||" -> x \/ y
    [] o = "&&n" -> IF n.truthy[x] THEN y ELSE x
    [] o = "||n" -> IF n.truthy[x] THEN x ELSE y

MathOp1(n, f, x) ==
  CASE f = "sin" -> n.sin[x]
    [] f = "cos" -> n.cos[x]
    [] f = "sqrt" -> n.sqrt[x]
    [] f = "acos" -> n.acos[x]
    [] f = "abs" -> n.abs[x]
    [] f = "exp" -> n.exp[x]
    [] f = "log" -> n.log[x]

MathOp2(n, f, x, y) ==
  CASE f = "atan2" -> n.atan2[x, y]
    [] f = "min" -> n.min[x, y]
    [] f = "max" -> n.max[x, y]

\* The state of an invocation of the function fn: the heap h, the statements
\* k still to run, the parameters and locals env, the type of what fn
\* returns, the returned value if any, and whether the invocation threw.
\* A parameter without an argument is undefined.
Enter(fn, vals, h) ==
  [h |-> h,
   k |-> fn.body,
   env |-> [x \in {fn.params[i] : i \in DOMAIN fn.params} |->
              LET i == CHOOSE j \in DOMAIN fn.params : fn.params[j] = x
              IN IF i <= Len(vals) THEN vals[i] ELSE "undefined"],
   type |-> fn.type,
   ret |-> {},
   threw |-> FALSE]

\* What a statement evaluates before it acts: its expression, or the
\* arguments of its call.
ExprOf(s) ==
  CASE s[1] = "let" -> s[3]
    [] s[1] = "set" -> s[4]
    [] s[1] = "if" -> s[2]
    [] s[1] = "return" -> s[2]
    [] s[1] \in {"do", "returndo"} -> <<"args", s[3]>>
    [] OTHER -> <<"args", <<>>>>

\* The statement s in the state st, where s evaluates v and r is the state
\* in which the function that s calls ends.
After(st, s, v, r) ==
  LET rest == Tail(st.k)
  IN CASE s[1] = "let" -> [st EXCEPT !.k = rest, !.env = Bind(st.env, s[2], v)]
       [] s[1] = "set" ->
            [st EXCEPT !.k = rest,
                       !.h = Wr(st.h, Lookup(st.env, s[2]), s[3], v)]
       [] s[1] = "if" -> [st EXCEPT !.k = (IF v THEN s[3] ELSE s[4]) \o rest]
       [] s[1] = "do" ->
            [st EXCEPT !.h = r.h, !.threw = r.threw,
                       !.k = IF r.threw THEN <<>> ELSE rest]
       [] s[1] = "return" -> [st EXCEPT !.k = <<>>, !.ret = {v}]
       [] s[1] = "returndo" ->
            [st EXCEPT !.h = r.h, !.threw = r.threw, !.ret = r.ret,
                       !.k = <<>>]
       [] s[1] = "throw" -> [st EXCEPT !.k = <<>>, !.threw = TRUE]
       [] s[1] = "switch" ->
            LET x == Lookup(st.env, s[2])
            IN [st EXCEPT !.k = (IF x \in DOMAIN s[3] THEN s[3][x] ELSE s[4])
                                \o rest]
       [] s[1] = "default" ->
            [st EXCEPT !.k = rest,
                       !.env = IF st.env[s[2]] = "undefined"
                               THEN Bind(st.env, s[2], s[3]) ELSE st.env]

RECURSIVE Ev(_, _, _, _)
RECURSIVE Call1(_, _, _, _)
RECURSIVE Step1(_, _, _, _)
RECURSIVE Step(_, _)
RECURSIVE Exec(_, _)

\* The value of the expression e; cx gives the class of every buffer (kind),
\* the functions of the library (lib) and the arithmetic (num).
Ev(e, env, h, cx) ==
  CASE e[1] = "lit" -> e[2]
    [] e[1] = "var" -> Lookup(env, e[2])
    [] e[1] = "ix" -> h[Lookup(env, e[2])][e[3]]
    [] e[1] = "un" -> UnOp(cx.num, e[2], Ev(e[3], env, h, cx))
    [] e[1] = "bin" ->
         BinOp(cx.num, e[2], Ev(e[3], env, h, cx), Ev(e[4], env, h, cx))
    [] e[1] = "math1" -> MathOp1(cx.num, e[2], Ev(e[3], env, h, cx))
    [] e[1] = "math2" ->
         MathOp2(cx.num, e[2], Ev(e[3], env, h, cx), Ev(e[4], env, h, cx))
    [] e[1] = "cond" ->
         IF Ev(e[2], env, h, cx) THEN Ev(e[3], env, h, cx)
         ELSE Ev(e[4], env, h, cx)
    [] e[1] = "call" ->
         Call1(e[2], Ev(<<"args", e[3]>>, env, h, cx), h, cx)
    [] e[1] = "instanceof" -> cx.kind[Lookup(env, e[2])] = e[3]
    [] e[1] = "args" -> [i \in DOMAIN e[2] |-> Ev(e[2][i], env, h, cx)]

\* What f(vals) returns.
Call1(f, vals, h, cx) ==
  CHOOSE v \in Exec(Enter(cx.lib[f], vals, h), cx).ret : TRUE

\* The statement s, which evaluates v.
Step1(st, s, v, cx) ==
  After(st, s, v, Exec(Enter(cx.lib[s[2]], v, st.h), cx))

\* The first of the statements still to run.
Step(st, cx) ==
  Step1(st, Head(st.k), Ev(ExprOf(Head(st.k)), st.env, st.h, cx), cx)

\* The invocation run to its end.
Exec(st, cx) == IF Len(st.k) = 0 THEN st ELSE Exec(Step(st, cx), cx)

----------------------------------------------------------------------------
(* Calls *)

\* The module right after it is loaded: the caller's buffers as
\* new Float32Array(n) leaves them, the scratch buffers as the closures of
\* rotationTo (vec3.create, vec3.fromValues) and sqlerp (quat.create) make
\* them.
InitMem ==
  [b \in Buffers |->
     IF b \in QuatBufs THEN V4(0, 0, 0, 0)
     ELSE IF b \in Vec3Bufs THEN V3(0, 0, 0)
     ELSE IF b \in MatBufs THEN [i \in 0..15 |-> Zero]
     ELSE IF b = "tmpvec3" THEN V3(0, 0, 0)
     ELSE IF b = "xUnitVec3" THEN V3(1, 0, 0)
     ELSE IF b = "yUnitVec3" THEN V3(0, 1, 0)
     ELSE V4(0, 0, 0, 1)]

InitKind == [b \in Buffers |-> "Float32Array"]

NoCall ==
  [op |-> "none", bufs |-> <<>>, scal |-> <<>>, pre |-> InitMem, ret |-> {},
   threw |-> FALSE]

\* The function op called on the buffers b and the scalars s, in the heap h
\* whose buffers have the classes k, and run to its end.
RunIn(js, op, b, s, h, k) ==
  Exec(Enter(js.lib[op], b \o s, h),
       [kind |-> k, lib |-> js.lib, num |-> js.num])

\* The engine with the library loaded: every function is a value that is
\* made once.
Engine == [lib |-> Lib, num |-> Arith]

Run(op, b, s, h, k) == RunIn(Engine, op, b, s, h, k)

\* Every number of the result is within the representation.
Within(r) ==
  /\ Representable(r.h)
  /\ r.type = "number" => {v \in r.ret : ~IsValue(v)} = {}

\* The call of op on the buffers b and the scalars s, made in the heap h0
\* with the classes k, has ended in the state r.
Returned(op, b, s, h0, k, r) ==
  /\ Within(r)
  /\ mem' = r.h
  /\ kind' = k
  /\ last' = [op |-> op, bufs |-> b, scal |-> s, pre |-> h0, ret |-> r.ret,
              threw |-> r.threw]
  /\ pc' = "done"
  /\ UNCHANGED frames

Made(js, op, b, s, h0, k) ==
  Returned(op, b, s, h0, k, RunIn(js, op, b, s, h0, k))

\* The caller stores vals in its buffers, which have the classes k, and
\* calls op of the engine js on the buffers b with the scalars s.
Invoke(js, op, b, s, vals, k) == Made(js, op, b, s, Load(mem, vals), k)

----------------------------------------------------------------------------
(* The arguments the calls are made with *)

Q(x, y, z, w, d) == Arr(<<Rat(x, d), Rat(y, d), Rat(z, d), Rat(w, d)>>)

P3(x, y, z, d) == Arr(<<Rat(x, d), Rat(y, d), Rat(z, d)>>)

\* Unit quaternions: the identity, i, j, k, the rotations by 2*theta0 and
\* -2*theta0 about x, the negated identity and rotation, and a rotation by a
\* third of a turn about (1,1,1).
UnitQ ==
  {Q(0, 0, 0, 1, 1), Q(1, 0, 0, 0, 1), Q(0, 1, 0, 0, 1), Q(0, 0, 1, 0, 1),
   Q(3, 0, 0, 4, 5), Q(-3, 0, 0, 4, 5), Q(-3, 0, 0, -4, 5),
   Q(0, 0, 0, -1, 1), Q(1, 1, 1, 1, 2)}

\* With a quaternion that is not unit and the zero quaternion.
QVals == UnitQ \cup {Q(1, 2, 3, 4, 1), Q(0, 0, 0, 0, 1)}

VVals ==
  {P3(1, 0, 0, 1), P3(-1, 0, 0, 1), P3(0, 1, 0, 1), P3(0, 0, 1, 1),
   P3(3, 4, 0, 5), P3(7, 24, 0, 25), P3(0, 0, 0, 1), P3(1, 2, 2, 1)}

\* The six unit vectors along the axes.
Axes ==
  {P3(1, 0, 0, 1), P3(-1, 0, 0, 1), P3(0, 1, 0, 1), P3(0, -1, 0, 1),
   P3(0, 0, 1, 1), P3(0, 0, -1, 1)}

\* Vectors of four numbers whose lengths are 2 and 9.
LongVals == {Q(1, 1, 1, 1, 1), Q(2, 4, 5, 6, 1)}

\* Vectors with an infinite component.
InfVals3 == {Arr(<<Infinity(1), Zero, Zero>>), Arr(<<Infinity(-1), Zero, Zero>>)}

InfVals4 ==
  {Arr(<<Zero, Zero, Zero, Infinity(1)>>),
   Arr(<<Zero, Zero, Zero, Infinity(-1)>>)}

\* What equals is given: the vectors vals with vectors that are 10^-6 and
\* 2 * 10^-6 from (1,0,0), or with vectors of integers that are 1 and 2
\* from 10^6.
CloseVals3(vals) ==
  {vals \cup InfVals3
     \cup {P3(999999, 0, 0, 1000000), P3(999998, 0, 0, 1000000)},
   vals \cup InfVals3
     \cup {P3(999998, 0, 0, 1), P3(999999, 0, 0, 1), P3(1000000, 0, 0, 1)}}

CloseVals4(vals) ==
  {vals \cup InfVals4
     \cup {Q(0, 0, 0, 999999, 1000000), Q(0, 0, 0, 999998, 1000000)},
   vals \cup InfVals4
     \cup {Q(0, 0, 0, 999998, 1), Q(0, 0, 0, 999999, 1),
           Q(0, 0, 0, 1000000, 1)}}

CrossVals == {Q(1, 0, 0, 0, 1), Q(0, 1, 0, 0, 1), Q(1, 2, 3, 4, 1), Q(0, 0, 3, 4, 5)}

SqVals == {Q(0, 0, 0, 1, 1), Q(1, 0, 0, 0, 1), Q(3, 0, 0, 4, 5), Q(-3, 0, 0, -4, 5)}

\* The identity, a translation by (1,2,3), and a matrix whose last row
\* makes w zero for some vectors.
Mat(s) == Arr(s)

MVals ==
  {Mat(<<One, Zero, Zero, Zero, Zero, One, Zero, Zero, Zero, Zero, One, Zero,
         Zero, Zero, Zero, One>>),
   Mat(<<One, Zero, Zero, Zero, Zero, One, Zero, Zero, Zero, Zero, One, Zero,
         One, Num(2), Num(3), One>>),
   Mat(<<Num(2), Zero, Zero, One, Zero, One, Zero, Zero, Zero, Zero, One, Zero,
         Zero, Zero, Num(5), One>>)}

TVals == {Zero, Rat(1, 2), One, Num(2)}

RadVals ==
  {Zero, PI, Neg[PI], Mul[Num(2), Theta0], Add[PI, Mul[Num(2), Theta0]],
   Div[PI, Num(2)]}

\* What Math.random can return.
DrawVals == {Zero, Rat(1, 4), Rat(1, 2), Rat(3, 4)}

DegVals == {Zero, Num(90), Num(180), Num(360), Num(-180)}

\* What a caller can pass as the order of quat.fromEuler: a member of the
\* enum, nothing, or a value that is no member.
OrderVals == AngleOrder \cup {"undefined", "ABC", "xyz"}

\* The buffers of a call (out, a): apart, or the same.
Pat2Q == {<<"q2", "q0">>, <<"q0", "q0">>}

Pat2V == {<<"v2", "v0">>, <<"v0", "v0">>}

\* The buffers of a call (out, a, b).
Pat3Q ==
  {<<"q2", "q0", "q1">>, <<"q0", "q0", "q1">>, <<"q1", "q0", "q1">>,
   <<"q0", "q0", "q0">>, <<"q2", "q0", "q0">>}

Pat3V ==
  {<<"v2", "v0", "v1">>, <<"v0", "v0", "v1">>, <<"v1", "v0", "v1">>,
   <<"v0", "v0", "v0">>, <<"v2", "v0", "v0">>}

\* The buffers of a call (a, b) of a function that returns a value.
PatAB(x, y) == {<<x, y>>, <<x, x>>}

\* va stored in the buffer x and vb in the buffer y.
In2(x, va, y, vb) == (x :> va) @@ (y :> vb)

\* Nothing to tell apart when both arguments are one buffer.
Same(x, va, y, vb) == x = y => va = vb

----------------------------------------------------------------------------
(* One action per function *)

\* op(out, a) on quaternions / four-element vectors
OutA4(js, op, vals) ==
  \E p \in Pat2Q, va \in vals : Invoke(js, op, p, <<>>, p[2] :> va, InitKind)

\* op(out, a, s) with a number s
OutAS4(js, op, vals, svals) ==
  \E p \in Pat2Q, va \in vals, s \in svals :
    Invoke(js, op, p, <<s>>, p[2] :> va, InitKind)

\* op(out, a, b) on quaternions / four-element vectors
OutAB4(js, op, vals) ==
  \E p \in Pat3Q, va \in vals, vb \in vals :
    /\ Same(p[2], va, p[3], vb)
    /\ Invoke(js, op, p, <<>>, In2(p[2], va, p[3], vb), InitKind)

\* op(out, a, b) on three-element vectors
OutAB3(js, op, svals) ==
  \E p \in Pat3V, va \in VVals, vb \in VVals, s \in svals :
    /\ Same(p[2], va, p[3], vb)
    /\ Invoke(js, op, p, s, In2(p[2], va, p[3], vb), InitKind)

\* op(a, b), which returns a value
RetAB(js, op, x, y, vals) ==
  \E p \in PatAB(x, y), va \in vals, vb \in vals :
    /\ Same(p[1], va, p[2], vb)
    /\ Invoke(js, op, p, <<>>, In2(p[1], va, p[2], vb), InitKind)

Vec3Length(js) ==
  /\ pc = "idle"
  /\ \E va \in VVals :
       Invoke(js, "vec3.length", <<"v0">>, <<>>, "v0" :> va, InitKind)

Vec3Copy(js) ==
  /\ pc = "idle"
  /\ \E p \in Pat2V, va \in VVals :
       Invoke(js, "vec3.copy", p, <<>>, p[2] :> va, InitKind)

Vec3Add(js) ==
  /\ pc = "idle"
  /\ OutAB3(js, "vec3.add", {<<>>})

Vec3Scale(js) ==
  /\ pc = "idle"
  /\ \E p \in Pat2V, va \in VVals, s \in TVals :
       Invoke(js, "vec3.scale", p, <<s>>, p[2] :> va, InitKind)

Vec3Distance(js) ==
  /\ pc = "idle"
  /\ RetAB(js, "vec3.distance", "v0", "v1", VVals)

Vec3SquaredDistance(js) ==
  /\ pc = "idle"
  /\ RetAB(js, "vec3.squaredDistance", "v0", "v1", VVals)

Vec3SquaredLength(js) ==
  /\ pc = "idle"
  /\ \E va \in VVals :
       Invoke(js, "vec3.squaredLength", <<"v0">>, <<>>, "v0" :> va, InitKind)

Vec3Normalize(js) ==
  /\ pc = "idle"
  /\ \E p \in Pat2V, va \in VVals :
       Invoke(js, "vec3.normalize", p, <<>>,
           In2(p[2], va, "v2", P3(5, 6, 7, 1)), InitKind)

Vec3Dot(js) ==
  /\ pc = "idle"
  /\ RetAB(js, "vec3.dot", "v0", "v1", VVals)

Vec3Cross(js) ==
  /\ pc = "idle"
  /\ OutAB3(js, "vec3.cross", {<<>>})

Vec3Lerp(js) ==
  /\ pc = "idle"
  /\ OutAB3(js, "vec3.lerp", {<<s>> : s \in TVals})

\* out can be the vector, the matrix or neither
Vec3TransformMat4(js) ==
  /\ pc = "idle"
  /\ \E o \in {"v2", "v0", "m0"}, va \in VVals, vm \in MVals :
       Invoke(js, "vec3.transformMat4", <<o, "v0", "m0">>, <<>>,
            In2("v0", va, "m0", vm), InitKind)

\* out can be the vector, the quaternion or neither
Vec3TransformQuat(js) ==
  /\ pc = "idle"
  /\ \E o \in {"v2", "v0", "q0"}, va \in VVals, vq \in QVals :
       Invoke(js, "vec3.transformQuat", <<o, "v0", "q0">>, <<>>,
            In2("v0", va, "q0", vq), InitKind)

Vec3Angle(js) ==
  /\ pc = "idle"
  /\ RetAB(js, "vec3.angle", "v0", "v1", VVals)

Vec3ExactEquals(js) ==
  /\ pc = "idle"
  /\ RetAB(js, "vec3.exactEquals", "v0", "v1", VVals)

Vec3Equals(js) ==
  /\ pc = "idle"
  /\ \E vals \in CloseVals3(VVals) :
       RetAB(js, "vec3.equals", "v0", "v1", vals)

\* Math.random returns a number from 0 up to, but not, 1
Vec3Random(js) ==
  /\ pc = "idle"
  /\ \E u1 \in DrawVals, u2 \in DrawVals :
       Invoke(js, "vec3.random", <<"v0">>, <<u1, u2>>,
           "v0" :> P3(5, 6, 7, 1), InitKind)

Vec4Copy(js) ==
  /\ pc = "idle"
  /\ OutA4(js, "vec4.copy", QVals)

Vec4Scale(js) ==
  /\ pc = "idle"
  /\ OutAS4(js, "vec4.scale", QVals, TVals)

Vec4Length(js) ==
  /\ pc = "idle"
  /\ \E va \in QVals :
       Invoke(js, "vec4.length", <<"q0">>, <<>>, "q0" :> va, InitKind)

Vec4SquaredLength(js) ==
  /\ pc = "idle"
  /\ \E va \in QVals :
       Invoke(js, "vec4.squaredLength", <<"q0">>, <<>>, "q0" :> va, InitKind)

Vec4Normalize(js) ==
  /\ pc = "idle"
  /\ OutA4(js, "vec4.normalize", QVals \cup LongVals)

Vec4Dot(js) ==
  /\ pc = "idle"
  /\ RetAB(js, "vec4.dot", "q0", "q1", QVals)

\* out can be any of the three operands or none
Vec4Cross(js) ==
  /\ pc = "idle"
  /\ \E o \in {"q3", "q0", "q1", "q2"}, vu \in CrossVals, vv \in CrossVals,
        vw \in CrossVals :
       Invoke(js, "vec4.cross", <<o, "q0", "q1", "q2">>, <<>>,
            In2("q0", vu, "q1", vv) @@ ("q2" :> vw), InitKind)

Vec4TransformMat4(js) ==
  /\ pc = "idle"
  /\ \E o \in {"q2", "q0", "m0"}, va \in QVals, vm \in MVals :
       Invoke(js, "vec4.transformMat4", <<o, "q0", "m0">>, <<>>,
            In2("q0", va, "m0", vm), InitKind)

Vec4TransformQuat(js) ==
  /\ pc = "idle"
  /\ OutAB4(js, "vec4.transformQuat", QVals)

Vec4ExactEquals(js) ==
  /\ pc = "idle"
  /\ RetAB(js, "vec4.exactEquals", "q0", "q1", QVals)

Vec4Equals(js) ==
  /\ pc = "idle"
  /\ \E vals \in CloseVals4(QVals) :
       RetAB(js, "vec4.equals", "q0", "q1", vals)

QuatIdentity(js) ==
  /\ pc = "idle"
  /\ \E va \in QVals :
       Invoke(js, "quat.identity", <<"q0">>, <<>>, "q0" :> va, InitKind)

QuatSetAxisAngle(js) ==
  /\ pc = "idle"
  /\ \E o \in {"q0", "v0"}, va \in VVals, s \in RadVals :
       Invoke(js, "quat.setAxisAngle", <<o, "v0">>, <<s>>, "v0" :> va,
           InitKind)

QuatGetAxisAngle(js) ==
  /\ pc = "idle"
  /\ \E o \in {"v0", "q0"}, vq \in QVals :
       Invoke(js, "quat.getAxisAngle", <<o, "q0">>, <<>>, "q0" :> vq,
           InitKind)

QuatGetAngle(js) ==
  /\ pc = "idle"
  /\ RetAB(js, "quat.getAngle", "q0", "q1", QVals)

QuatMultiply(js) ==
  /\ pc = "idle"
  /\ OutAB4(js, "quat.multiply", QVals)

QuatRotateX(js) ==
  /\ pc = "idle"
  /\ OutAS4(js, "quat.rotateX", QVals, RadVals)

QuatRotateY(js) ==
  /\ pc = "idle"
  /\ OutAS4(js, "quat.rotateY", QVals, RadVals)

QuatRotateZ(js) ==
  /\ pc = "idle"
  /\ OutAS4(js, "quat.rotateZ", QVals, RadVals)

QuatExp(js) ==
  /\ pc = "idle"
  /\ OutA4(js, "quat.exp", QVals \cup {Q(0, 0, 0, 0, 1)})

QuatLn(js) ==
  /\ pc = "idle"
  /\ OutA4(js, "quat.ln", QVals)

QuatPow(js) ==
  /\ pc = "idle"
  /\ OutAS4(js, "quat.pow", QVals, {Zero, One, Num(2), Num(-1), Rat(1, 2)})

QuatSlerp(js) ==
  /\ pc = "idle"
  /\ \E p \in Pat3Q, va \in QVals, vb \in QVals, t \in TVals :
       /\ Same(p[2], va, p[3], vb)
       /\ Invoke(js, "quat.slerp", p, <<t>>, In2(p[2], va, p[3], vb),
           InitKind)

QuatInvert(js) ==
  /\ pc = "idle"
  /\ OutA4(js, "quat.invert", QVals)

QuatConjugate(js) ==
  /\ pc = "idle"
  /\ OutA4(js, "quat.conjugate", QVals)

\* the order is passed, or left out
QuatFromEuler(js) ==
  /\ pc = "idle"
  /\ \E vo \in {Q(0, 0, 0, 1, 1), Q(1, 2, 3, 4, 1)}, x \in DegVals,
        y \in DegVals, z \in DegVals,
        order \in {<<o>> : o \in OrderVals} \cup {<<>>} :
       Invoke(js, "quat.fromEuler", <<"q0">>, <<x, y, z>> \o order,
           "q0" :> vo, InitKind)

QuatEquals(js) ==
  /\ pc = "idle"
  /\ RetAB(js, "quat.equals", "q0", "q1", QVals)

QuatRotationTo(js) ==
  /\ pc = "idle"
  /\ \E p \in {<<"q0", "v0", "v1">>, <<"q0", "v0", "v0">>},
        va \in VVals \cup Axes, vb \in VVals \cup Axes :
       /\ Same(p[2], va, p[3], vb)
       /\ Invoke(js, "quat.rotationTo", p, <<>>, In2(p[2], va, p[3], vb),
           InitKind)

\* out can be any of the four control points or none
QuatSqlerp(js) ==
  /\ pc = "idle"
  /\ \E o \in QuatBufs, va \in SqVals, vb \in SqVals, vc \in SqVals,
        vd \in SqVals, t \in {Zero, Rat(1, 2), One} :
       Invoke(js, "quat.sqlerp", <<o, "q0", "q1", "q2", "q3">>, <<t>>,
            In2("q0", va, "q1", vb) @@ In2("q2", vc, "q3", vd), InitKind)

\* The classes of the buffers when those of bs have the classes of ks.
KindOf(bs, ks) ==
  [b \in Buffers |->
     IF \E i \in DOMAIN bs : bs[i] = b
     THEN ks[CHOOSE i \in DOMAIN bs : bs[i] = b]
     ELSE InitKind[b]]

Vec3_64eAdd(js) ==
  /\ pc = "idle"
  /\ \E p \in {<<"v2", "v0", "v1">>, <<"v0", "v0", "v1">>},
        ks \in [1..3 -> Kinds], va \in {P3(1, 0, 0, 1), P3(1, 2, 2, 1)} :
       /\ (p[1] = p[2] => ks[1] = ks[2])
       /\ Invoke(js, "vec3_64e.add", p, <<>>, In2("v0", va, "v1", P3(3, 4,
           0, 5)),
               KindOf(p, ks))

Vec3_64eDot(js) ==
  /\ pc = "idle"
  /\ \E ks \in [1..2 -> Kinds], va \in {P3(1, 0, 0, 1), P3(1, 2, 2, 1)} :
       Invoke(js, "vec3_64e.dot", <<"v0", "v1">>, <<>>,
            In2("v0", va, "v1", P3(3, 4, 0, 5)), KindOf(<<"v0", "v1">>, ks))

Vec3_64eTransformQuat(js) ==
  /\ pc = "idle"
  /\ \E ks \in [1..3 -> Kinds], vq \in {Q(0, 0, 1, 0, 1), Q(3, 0, 0, 4, 5)} :
       Invoke(js, "vec3_64e.transformQuat", <<"v2", "v0", "q0">>, <<>>,
            In2("v0", P3(1, 2, 2, 1), "q0", vq), KindOf(<<"v2", "v0", "q0">>,
                ks))

Quat_32eGetAxisAngle(js) ==
  /\ pc = "idle"
  /\ \E ks \in [1..2 -> Kinds], vq \in {Q(0, 0, 1, 0, 1), Q(3, 0, 0, 4, 5)} :
       Invoke(js, "quat_32e.getAxisAngle", <<"v0", "q0">>, <<>>, "q0" :> vq,
            KindOf(<<"v0", "q0">>, ks))

Quat_32eFromEuler(js) ==
  /\ pc = "idle"
  /\ \E ks \in [1..1 -> Kinds], x \in {Zero, Num(180)}, order \in OrderVals :
       Invoke(js, "quat_32e.fromEuler", <<"q0">>, <<x, Zero, Num(180),
           order>>,
            "q0" :> Q(1, 2, 3, 4, 1), KindOf(<<"q0">>, ks))

Quat_32eSlerp(js) ==
  /\ pc = "idle"
  /\ \E ks \in [1..3 -> Kinds], t \in {Zero, One} :
       Invoke(js, "quat_32e.slerp", <<"q2", "q0", "q1">>, <<t>>,
            In2("q0", Q(1, 0, 0, 0, 1), "q1", Q(3, 0, 0, 4, 5)),
            KindOf(<<"q2", "q0", "q1">>, ks))

----------------------------------------------------------------------------
(* The specification *)

\* The next call is made on a module loaded afresh.
Restart ==
  /\ pc = "done"
  /\ mem' = InitMem
  /\ kind' = InitKind
  /\ last' = NoCall
  /\ pc' = "idle"
  /\ UNCHANGED frames

Init ==
  /\ mem = InitMem
  /\ kind = InitKind
  /\ last = NoCall
  /\ pc = "idle"
  /\ frames = <<>>

\* Every call is made on the engine with the library loaded.
Next ==
  \/ \E js \in {Engine} :
       \/ Vec3Length(js)
       \/ Vec3Copy(js)
       \/ Vec3Add(js)
       \/ Vec3Scale(js)
       \/ Vec3Distance(js)
       \/ Vec3SquaredDistance(js)
       \/ Vec3SquaredLength(js)
       \/ Vec3Normalize(js)
       \/ Vec3Dot(js)
       \/ Vec3Cross(js)
       \/ Vec3Lerp(js)
       \/ Vec3TransformMat4(js)
       \/ Vec3TransformQuat(js)
       \/ Vec3Angle(js)
       \/ Vec3ExactEquals(js)
       \/ Vec3Equals(js)
       \/ Vec3Random(js)
       \/ Vec4Copy(js)
       \/ Vec4Scale(js)
       \/ Vec4Length(js)
       \/ Vec4SquaredLength(js)
       \/ Vec4Normalize(js)
       \/ Vec4Dot(js)
       \/ Vec4Cross(js)
       \/ Vec4TransformMat4(js)
       \/ Vec4TransformQuat(js)
       \/ Vec4ExactEquals(js)
       \/ Vec4Equals(js)
       \/ QuatIdentity(js)
       \/ QuatSetAxisAngle(js)
       \/ QuatGetAxisAngle(js)
       \/ QuatGetAngle(js)
       \/ QuatMultiply(js)
       \/ QuatRotateX(js)
       \/ QuatRotateY(js)
       \/ QuatRotateZ(js)
       \/ QuatExp(js)
       \/ QuatLn(js)
       \/ QuatPow(js)
       \/ QuatSlerp(js)
       \/ QuatInvert(js)
       \/ QuatConjugate(js)
       \/ QuatFromEuler(js)
       \/ QuatEquals(js)
       \/ QuatRotationTo(js)
       \/ QuatSqlerp(js)
       \/ Vec3_64eAdd(js)
       \/ Vec3_64eDot(js)
       \/ Vec3_64eTransformQuat(js)
       \/ Quat_32eGetAxisAngle(js)
       \/ Quat_32eFromEuler(js)
       \/ Quat_32eSlerp(js)
  \/ Restart

Spec == Init /\ [][Next]_vars


----------------------------------------------------------------------------
(* Calls made one after the other on one loaded module *)

\* The control points and the vectors of the calls of a sequence.
SeqQVals == {Q(0, 0, 0, 1, 1), Q(3, 0, 0, 4, 5), Q(1, 0, 0, 0, 1)}

SeqVVals == {P3(1, 0, 0, 1), P3(-1, 0, 0, 1), P3(0, 1, 0, 1), P3(3, 4, 0, 5)}

\* The caller fills its buffers again for the next call; the scratch
\* buffers are the module's and stay as the call left them.
Kept(h) == [b \in Buffers |-> IF b \in ScratchBufs THEN h[b] ELSE InitMem[b]]

NextCall ==
  /\ pc = "done"
  /\ mem' = Kept(mem)
  /\ kind' = InitKind
  /\ last' = NoCall
  /\ pc' = "idle"
  /\ UNCHANGED frames

SeqQuatSqlerp(js) ==
  /\ pc = "idle"
  /\ \E va \in SeqQVals, vb \in SeqQVals, vc \in SeqQVals, vd \in SeqQVals,
        t \in {Zero, Rat(1, 2), One} :
       Invoke(js, "quat.sqlerp", <<"q4", "q0", "q1", "q2", "q3">>, <<t>>,
            In2("q0", va, "q1", vb) @@ In2("q2", vc, "q3", vd), InitKind)

SeqQuatRotationTo(js) ==
  /\ pc = "idle"
  /\ \E va \in SeqVVals, vb \in SeqVVals :
       Invoke(js, "quat.rotationTo", <<"q0", "v0", "v1">>, <<>>,
           In2("v0", va, "v1", vb), InitKind)

SeqQuatSlerp(js) ==
  /\ pc = "idle"
  /\ \E va \in SeqQVals, vb \in SeqQVals, t \in {Zero, Rat(1, 2), One} :
       Invoke(js, "quat.slerp", <<"q4", "q0", "q1">>, <<t>>,
           In2("q0", va, "q1", vb), InitKind)

SeqVec3Cross(js) ==
  /\ pc = "idle"
  /\ \E va \in SeqVVals, vb \in SeqVVals :
       Invoke(js, "vec3.cross", <<"v2", "v0", "v1">>, <<>>,
           In2("v0", va, "v1", vb), InitKind)

SeqVec4Normalize(js) ==
  /\ pc = "idle"
  /\ \E va \in SeqQVals \cup LongVals :
       Invoke(js, "vec4.normalize", <<"q4", "q0">>, <<>>, "q0" :> va,
           InitKind)

NextSeq ==
  \/ \E js \in {Engine} :
       \/ SeqQuatSqlerp(js)
       \/ SeqQuatRotationTo(js)
       \/ SeqQuatSlerp(js)
       \/ SeqVec3Cross(js)
       \/ SeqVec4Normalize(js)
  \/ NextCall

SpecSeq == Init /\ [][NextSeq]_vars

----------------------------------------------------------------------------
(* Invocations that overlap *)

\* Two callers make an invocation each on a loaded module, and the two can
\* overlap.  Each invocation is a frame: the call (op, bufs, scal), the heap
\* when it began (pre), what the interpreter keeps of it (k, env, type, ret,
\* threw), whether it has run a statement (begun), whether a statement of
\* another invocation has run between two of its statements (cut), and
\* whether it has returned to its caller (back).

\* The buffer each caller has its result in.
OutBufs == <<"q4", "q5">>

\* What the callers store in their buffers before they call.
ReArgs ==
  In2("q0", Q(0, 0, 0, 1, 1), "q1", Q(1, 0, 0, 0, 1))
    @@ In2("q2", Q(0, 1, 0, 0, 1), "q3", Q(0, 0, 1, 0, 1))
    @@ In2("v0", P3(1, 0, 0, 1), "v1", P3(0, 1, 0, 1))
    @@ ("v2" :> P3(-1, 0, 0, 1))

\* A caller stores its arguments and enters op: nothing of op has run yet.
Begin(js, op, b, s) ==
  /\ pc = "idle"
  /\ Len(frames) < Len(OutBufs)
  /\ mem' = Load(mem, ReArgs)
  /\ frames' = Append(frames,
       LET st == Enter(js.lib[op], b \o s, Load(mem, ReArgs))
       IN [op |-> op, bufs |-> b, scal |-> s, pre |-> st.h, k |-> st.k,
           env |-> st.env, type |-> st.type, ret |-> st.ret,
           threw |-> st.threw, begun |-> FALSE, cut |-> FALSE,
           back |-> FALSE])
  /\ UNCHANGED <<kind, pc, last>>

BeginSqlerp(js) ==
  \E t \in {Zero, One},
     p \in {<<"q0", "q1", "q2", "q3">>, <<"q1", "q0", "q3", "q2">>} :
    Begin(js, "quat.sqlerp", <<OutBufs[Len(frames) + 1]>> \o p, <<t>>)

BeginRotationTo(js) ==
  \E p \in {<<"v0", "v1">>, <<"v1", "v0">>, <<"v0", "v2">>} :
    Begin(js, "quat.rotationTo", <<OutBufs[Len(frames) + 1]>> \o p, <<>>)

BeginSlerp(js) ==
  \E t \in {Zero, One} :
    Begin(js, "quat.slerp", <<OutBufs[Len(frames) + 1], "q0", "q1">>, <<t>>)

\* The frame f as the interpreter sees it on the heap h, and the frame after
\* the interpreter has left it in the state st.
Resumed(f, h) ==
  [h |-> h, k |-> f.k, env |-> f.env, type |-> f.type, ret |-> f.ret,
   threw |-> f.threw]

Suspended(f, st) ==
  [f EXCEPT !.k = st.k, !.env = st.env, !.ret = st.ret, !.threw = st.threw,
            !.begun = TRUE]

\* Another invocation has run a statement: a frame that has begun and not
\* ended has been cut into.
Cut(f) == [f EXCEPT !.cut = f.cut \/ (f.begun /\ Len(f.k) > 0)]

\* The invocation of frame i runs its next statement, with the calls that
\* the statement makes.
Statement(js) ==
  /\ pc = "idle"
  /\ \E i \in DOMAIN frames :
       /\ Len(frames[i].k) > 0
       /\ LET st == Step(Resumed(frames[i], mem),
                         [kind |-> kind, lib |-> js.lib, num |-> js.num])
          IN /\ Representable(st.h)
             /\ mem' = st.h
             /\ frames' = [j \in DOMAIN frames |->
                             IF j = i THEN Suspended(frames[i], st)
                             ELSE Cut(frames[j])]
  /\ UNCHANGED <<kind, pc, last>>

\* An invocation that has no statement left returns to its caller.
Returns ==
  /\ pc = "idle"
  /\ \E i \in DOMAIN frames :
       /\ Len(frames[i].k) = 0
       /\ ~frames[i].back
       /\ last' = [op |-> frames[i].op, bufs |-> frames[i].bufs,
                   scal |-> frames[i].scal, pre |-> frames[i].pre,
                   ret |-> frames[i].ret, threw |-> frames[i].threw,
                   cut |-> frames[i].cut]
       /\ frames' = [frames EXCEPT ![i].back = TRUE]
  /\ pc' = "done"
  /\ UNCHANGED <<mem, kind>>

\* The caller has taken the result.
Taken ==
  /\ pc = "done"
  /\ pc' = "idle"
  /\ last' = NoCall
  /\ UNCHANGED <<mem, kind, frames>>

\* Every invocation has returned: the next ones are made on a module loaded
\* afresh.
Reload ==
  /\ pc = "idle"
  /\ frames # <<>>
  /\ \A i \in DOMAIN frames : frames[i].back
  /\ mem' = InitMem
  /\ frames' = <<>>
  /\ UNCHANGED <<kind, pc, last>>

NextReentrant ==
  \/ \E js \in {Engine} :
       \/ BeginSqlerp(js)
       \/ BeginRotationTo(js)
       \/ BeginSlerp(js)
       \/ Statement(js)
  \/ Returns
  \/ Taken
  \/ Reload

SpecReentrant == Init /\ [][NextReentrant]_vars
----------------------------------------------------------------------------
(* Properties *)

\* A call of op has returned or thrown.
Done(op) == pc = "done" /\ last.op = op

\* The buffers the last call was made on, as a set.
Passed == {last.bufs[i] : i \in DOMAIN last.bufs}

\* The core functions that write into out, their first argument.
OutOps ==
  {"vec3.copy", "vec3.add", "vec3.scale", "vec3.normalize", "vec3.cross",
   "vec3.lerp", "vec3.transformMat4", "vec3.transformQuat", "vec4.copy",
   "vec4.scale", "vec4.normalize", "vec4.cross", "vec4.transformMat4",
   "vec4.transformQuat", "quat.identity", "quat.setAxisAngle",
   "quat.getAxisAngle", "quat.multiply", "quat.rotateX", "quat.rotateY",
   "quat.rotateZ", "quat.exp", "quat.ln", "quat.pow", "quat.slerp",
   "quat.invert", "quat.conjugate", "quat.fromEuler", "quat.rotationTo",
   "quat.sqlerp"}

\* A buffer that no call is made on, of the length of what op writes.
Spare(op) ==
  IF op \in {"vec3.copy", "vec3.add", "vec3.scale", "vec3.normalize",
             "vec3.cross", "vec3.lerp", "vec3.transformMat4",
             "vec3.transformQuat", "quat.getAxisAngle"}
  THEN "v2" ELSE "q4"

\* out is also an input of the last call.
Aliased == \E i \in 2..Len(last.bufs) : last.bufs[i] = last.bufs[1]

\* The last call made again, from the heap it was made in, with the spare
\* buffer as out.
Apart ==
  Run(last.op, <<Spare(last.op)>> \o Tail(last.bufs), last.scal, last.pre,
      kind)

\* The arrays x and y agree on the indices they share.
Agree(x, y) == \A i \in DOMAIN x \cap DOMAIN y : x[i] = y[i]

\* The array x with every component negated.
Negated(x) == [i \in DOMAIN x |-> Neg[x[i]]]

\* C1: a function that writes into out leaves in out, when out is also one
\* of its inputs, the values that the same call leaves in a separate out.
C1_Aliasing ==
  (pc = "done" /\ last.op \in OutOps /\ Aliased /\ Spare(last.op) \notin Passed)
    => Agree(mem[last.bufs[1]], Apart.h[Spare(last.op)])

\* vec3.cross has written a non-zero product over its first operand.
C1_Witness ==
  /\ Done("vec3.cross")
  /\ last.bufs[1] = last.bufs[2]
  /\ last.bufs[3] # last.bufs[1]
  /\ mem[last.bufs[1]] # last.pre[last.bufs[1]]
  /\ mem[last.bufs[1]] # V3(0, 0, 0)

\* The order the last call of fromEuler was given: undefined when the caller
\* passed none.
OrderGiven == IF Len(last.scal) >= 4 THEN last.scal[4] ELSE "undefined"

\* The order the last call of fromEuler was given is none of the six.
Unsupported == OrderGiven \notin AngleOrder \cup {"undefined"}

\* C2: quat.fromEuler given an order that is none of XYZ, XZY, YXZ, YZX,
\* ZXY, ZYX throws, and out (like every other buffer) holds what it held
\* before the call.  A call that passes no order takes ZYX and is no such
\* call.
C2_UnknownOrderThrows ==
  (Done("quat.fromEuler") /\ Unsupported) => last.threw /\ mem = last.pre

\* fromEuler has thrown on an order that is no member, out holding the
\* non-zero values it held.
C2_Witness ==
  /\ Done("quat.fromEuler")
  /\ OrderGiven = "ABC"
  /\ last.threw
  /\ mem["q0"] = V4(1, 2, 3, 4)

\* The modelled functions of the enforce modules.
EnforceOps ==
  {"vec3_64e.add", "vec3_64e.dot", "vec3_64e.transformQuat",
   "quat_32e.getAxisAngle", "quat_32e.fromEuler", "quat_32e.slerp"}

\* The class the arrays given to an enforce function must have.
Required(op) ==
  IF op \in {"vec3_64e.add", "vec3_64e.dot", "vec3_64e.transformQuat"}
  THEN "Float64Array" ELSE "Float32Array"

\* C3: a function of an enforce module that is given an array of another
\* class than its module's, as out or as an input, throws, and no buffer
\* has been written when it does.
C3_EnforceThrows ==
  (/\ pc = "done"
   /\ last.op \in EnforceOps
   /\ \E b \in Passed : kind[b] # Required(last.op))
    => last.threw /\ mem = last.pre

\* vec3_64e.add has thrown on its last operand, the only one of the wrong
\* class, after out and the first operand passed their checks.
C3_Witness ==
  /\ Done("vec3_64e.add")
  /\ last.bufs = <<"v2", "v0", "v1">>
  /\ kind["v2"] = "Float64Array"
  /\ kind["v0"] = "Float64Array"
  /\ kind["v1"] = "Float32Array"
  /\ last.threw
  /\ mem["v2"] = V3(0, 0, 0)

\* The functions that return a number or a boolean and take no out.
ScalarOps ==
  {"vec3.length", "vec3.squaredLength", "vec3.distance",
   "vec3.squaredDistance", "vec3.dot", "vec3.angle", "vec3.equals",
   "vec3.exactEquals", "vec4.length", "vec4.squaredLength", "vec4.dot",
   "vec4.equals", "vec4.exactEquals", "quat.getAngle", "quat.equals"}

\* C4: a function called with an out that is none of its inputs leaves
\* every buffer of the caller but out as it was, and a function that
\* returns a number or a boolean and takes no out leaves every buffer as it
\* was.
C4_InputsUntouched ==
  /\ (pc = "done" /\ last.op \in OutOps /\ ~Aliased)
       => \A b \in UserBufs \ {last.bufs[1]} : mem[b] = last.pre[b]
  /\ (pc = "done" /\ last.op \in ScalarOps) => mem = last.pre

\* slerp has flipped the sign of b for its own use (the operands have a
\* negative dot product) and written an out that is neither operand.
C4_Witness ==
  /\ Done("quat.slerp")
  /\ ~Aliased
  /\ last.scal = <<One>>
  /\ last.pre[last.bufs[2]] = Q(0, 0, 0, 1, 1)
  /\ last.pre[last.bufs[3]] = Q(0, 0, 0, -1, 1)
  /\ mem[last.bufs[1]] = Q(0, 0, 0, 1, 1)
  /\ mem[last.bufs[1]] # last.pre[last.bufs[1]]


\* The heap h with the scratch buffers as a module loaded afresh has them.
Fresh(h) == [b \in Buffers |-> IF b \in ScratchBufs THEN InitMem[b] ELSE h[b]]

\* The last call made alone: on a module loaded afresh, with the same
\* arguments.
Alone == Run(last.op, last.bufs, last.scal, Fresh(last.pre), kind)

\* C6: in a sequence of completed calls, a call leaves in the caller's
\* buffers, returns and throws what the same call does on a module loaded
\* afresh, whatever the earlier calls left in the scratch buffers, and the
\* axis vectors (1,0,0) and (0,1,0) of rotationTo are what they were at load.
C6_HistoryFree ==
  /\ mem["xUnitVec3"] = V3(1, 0, 0)
  /\ mem["yUnitVec3"] = V3(0, 1, 0)
  /\ pc = "done" =>
       /\ \A b \in UserBufs : mem[b] = Alone.h[b]
       /\ last.ret = Alone.ret
       /\ last.threw = Alone.threw

\* sqlerp has run on scratch buffers that an earlier call left different from
\* those of a fresh module, and has written them again.
C6_Witness ==
  /\ pc = "done"
  /\ last.op = "quat.sqlerp"
  /\ last.pre["temp1"] # InitMem["temp1"]
  /\ last.pre["temp2"] # InitMem["temp2"]
  /\ last.pre["tmpvec3"] # InitMem["tmpvec3"]
  /\ mem["temp1"] # last.pre["temp1"]
  /\ mem["temp2"] # last.pre["temp2"]
  /\ mem["q4"] # InitMem["q4"]

\* The functions whose closures hold scratch buffers.
Scratched == {"quat.rotationTo", "quat.sqlerp"}

\* An invocation has returned with something else in its out buffer than
\* the same call leaves there when it runs alone.
Corrupted ==
  /\ pc = "done"
  /\ ~last.threw
  /\ mem[last.bufs[1]] # Alone.h[last.bufs[1]]

\* C5: an invocation that returns something else than the same call run
\* alone is an invocation of rotationTo or sqlerp that a statement of
\* another invocation has cut into; no interleaving corrupts slerp, which
\* has no scratch buffer.
C5_OnlyScratchCorrupts ==
  Corrupted => last.op \in Scratched /\ last.cut

\* A second sqlerp has run between the first and the last statement of a
\* sqlerp, which returns something else than it does alone.
C5_Witness ==
  /\ Corrupted
  /\ last.op = "quat.sqlerp"
  /\ last.cut
  /\ mem["temp1"] # Alone.h["temp1"] \/ mem["temp2"] # Alone.h["temp2"]

\* The same of rotationTo.
C5_RotationTo ==
  /\ Corrupted
  /\ last.op = "quat.rotationTo"
  /\ last.cut
\* The quaternions 1, i, j, k.
QE == Q(0, 0, 0, 1, 1)

QI == Q(1, 0, 0, 0, 1)

QJ == Q(0, 1, 0, 0, 1)

QK == Q(0, 0, 1, 0, 1)

\* The operands of the last call of a function (out, a, b), as they were
\* given, and what it has left in out.
OpA == last.pre[last.bufs[2]]

OpB == last.pre[last.bufs[3]]

Out == mem[last.bufs[1]]

\* The last call was multiply on a and b.
Product(a, b) == Done("quat.multiply") /\ OpA = a /\ OpB = b

\* C7: quat.multiply leaves in out the Hamilton product of a and b: 1 is an
\* identity on both sides, i o j = k, j o k = i, k o i = j, i o i = -1, and
\* the products j o i, k o j, i o k are -k, -i, -j.
C7_HamiltonProduct ==
  /\ (Done("quat.multiply") /\ OpA = QE) => Out = OpB
  /\ (Done("quat.multiply") /\ OpB = QE) => Out = OpA
  /\ Product(QI, QJ) => Out = QK
  /\ Product(QJ, QK) => Out = QI
  /\ Product(QK, QI) => Out = QJ
  /\ Product(QI, QI) => Out = Negated(QE)
  /\ Product(QJ, QI) => Out = Negated(QK)
  /\ Product(QK, QJ) => Out = Negated(QI)
  /\ Product(QI, QK) => Out = Negated(QJ)

\* multiply has left k in out for i and j.
C7_Witness == Product(QI, QJ) /\ Out = QK /\ ~Aliased

\* The rotation by rad about the axis i of the quaternion's own frame
\* (0: x, 1: y, 2: z).
Elementary(i, rad) ==
  [n \in 0..3 |->
     IF n = i THEN Sin[Div[rad, Num(2)]]
     ELSE IF n = 3 THEN Cos[Div[rad, Num(2)]] ELSE Zero]

\* The axis that the last call (of rotateX, rotateY or rotateZ) turns about.
AxisOf(op) ==
  IF op = "quat.rotateX" THEN 0 ELSE IF op = "quat.rotateY" THEN 1 ELSE 2

\* multiply called on the operand of the last call and the elementary
\* rotation e, which is put in a spare buffer.
TimesElementary(e) ==
  Run("quat.multiply", <<"q4", last.bufs[2], "q3">>, <<>>,
      Load(last.pre, "q3" :> e), kind).h["q4"]

\* C8: rotateX, rotateY and rotateZ leave in out what multiply leaves for a
\* and, as its right operand, the elementary rotation (sin(rad/2),0,0,
\* cos(rad/2)), (0,sin(rad/2),0,cos(rad/2)), (0,0,sin(rad/2),cos(rad/2)).
C8_RotateIsMultiply ==
  (pc = "done" /\ last.op \in {"quat.rotateX", "quat.rotateY", "quat.rotateZ"})
    => Out = TimesElementary(Elementary(AxisOf(last.op), last.scal[1]))

\* rotateX has turned j by 2 * theta0: the result (0, 4/5, -3/5, 0) is not
\* what the elementary rotation gives as the left operand.
C8_Witness ==
  /\ Done("quat.rotateX")
  /\ OpA = QJ
  /\ last.scal = <<Mul[Num(2), Theta0]>>
  /\ Out = Q(0, 4, -3, 0, 5)

\* The operands a and b of the last call of slerp, as they were given.
SlerpA == last.pre[last.bufs[2]]

SlerpB == last.pre[last.bufs[3]]

\* The dot product of the arrays x and y of four numbers.
Dot4(x, y) ==
  Add[Add[Add[Mul[x[0], y[0]], Mul[x[1], y[1]]], Mul[x[2], y[2]]],
      Mul[x[3], y[3]]]

\* slerp takes its linear branch on the operands x and y when they are
\* within 0.000001 of parallel.
Linear(x, y) == Le[Sub[One, Abs[Dot4(x, y)]], Rat(1, 1000000)]

\* C9: slerp of a unit quaternion q with itself leaves q in out, whatever
\* t is.
C9_SlerpSame ==
  (Done("quat.slerp") /\ SlerpA \in UnitQ /\ SlerpB = SlerpA)
    => ~last.threw /\ Out = SlerpA

\* slerp has interpolated the rotation by 2 * theta0 about x with itself at
\* t = 1/2, through its linear branch.
C9_Witness ==
  /\ Done("quat.slerp")
  /\ SlerpA = Q(3, 0, 0, 4, 5)
  /\ SlerpB = SlerpA
  /\ Linear(SlerpA, SlerpB)
  /\ last.scal = <<Rat(1, 2)>>
  /\ ~Aliased
  /\ Out = Q(3, 0, 0, 4, 5)

\* The last call was slerp of unit quaternions at t = 1.
SlerpAtOne ==
  /\ Done("quat.slerp")
  /\ last.scal = <<One>>
  /\ SlerpA \in UnitQ
  /\ SlerpB \in UnitQ

\* C10 (as stated; b = -a refutes it): slerp of unit quaternions a and b at
\* t = 1 leaves b in out, also when dot(a, b) is negative.
C10_SlerpAtOneIsB == SlerpAtOne => Out = SlerpB

\* C10: slerp of unit quaternions a and b at t = 1 leaves b in out when
\* dot(a, b) >= 0 and -b, the same rotation, when dot(a, b) < 0.
C10_SlerpAtOne ==
  SlerpAtOne
    => /\ ~last.threw
       /\ Out = IF Lt[Dot4(SlerpA, SlerpB), Zero] THEN Negated(SlerpB)
                ELSE SlerpB

\* slerp at t = 1 from (0,0,0,1) to (0,0,0,-1) has left (0,0,0,1) in out.
C10_Witness ==
  /\ SlerpAtOne
  /\ SlerpA = QE
  /\ SlerpB = Negated(QE)
  /\ ~Aliased
  /\ Out = QE

\* C11: slerp of unit quaternions a and b at t = 0 leaves a in out, in its
\* trigonometric branch and in its linear branch.
C11_SlerpAtZero ==
  (/\ Done("quat.slerp")
   /\ last.scal = <<Zero>>
   /\ SlerpA \in UnitQ
   /\ SlerpB \in UnitQ)
    => ~last.threw /\ mem[last.bufs[1]] = SlerpA

\* slerp at t = 0 has gone through its trigonometric branch, for operands
\* an angle theta0 apart.
C11_Witness ==
  /\ Done("quat.slerp")
  /\ last.scal = <<Zero>>
  /\ SlerpA = Q(3, 0, 0, 4, 5)
  /\ SlerpB = Q(0, 0, 0, 1, 1)
  /\ ~Linear(SlerpA, SlerpB)
  /\ ~Aliased
  /\ mem[last.bufs[1]] = Q(3, 0, 0, 4, 5)

\* C12: for a unit quaternion q, quat.equals(q, -q) is true and
\* vec4.exactEquals(q, -q) is false.
C12_EqualsUpToSign ==
  (/\ Done("quat.equals")
   /\ last.pre[last.bufs[1]] \in UnitQ
   /\ last.pre[last.bufs[2]] = Negated(last.pre[last.bufs[1]]))
    => /\ last.ret = {TRUE}
       /\ Run("vec4.exactEquals", last.bufs, <<>>, last.pre, kind).ret
            = {FALSE}

\* quat.equals has compared the rotation by 2 * theta0 about x with its
\* negation.
C12_Witness ==
  /\ Done("quat.equals")
  /\ last.pre[last.bufs[1]] = Q(3, 0, 0, 4, 5)
  /\ last.pre[last.bufs[2]] = Q(-3, 0, 0, -4, 5)
  /\ last.ret = {TRUE}

\* The sine of the half angle of the quaternion q, as getAxisAngle takes it.
HalfSine(q) == Sin[Acos[q[3]]]

\* C13 (as stated; q = (0,0,0,-1) refutes it): getAxisAngle given a
\* quaternion whose half-angle sine is below 0.000001 writes the axis
\* (1,0,0) and returns the angle 0.
C13_FallbackAngleZero ==
  (/\ Done("quat.getAxisAngle")
   /\ Lt[HalfSine(last.pre[last.bufs[2]]), Rat(1, 1000000)])
    => /\ Agree(mem[last.bufs[1]], V3(1, 0, 0))
       /\ last.ret = {Zero}

\* What the returned angle is in that case: twice the arc cosine of q.w,
\* which is 0 for q.w = 1 and 2 * pi for q.w = -1; the axis is (1,0,0).
C13_FallbackAngle ==
  (/\ Done("quat.getAxisAngle")
   /\ Lt[HalfSine(last.pre[last.bufs[2]]), Rat(1, 1000000)])
    => /\ Agree(mem[last.bufs[1]], V3(1, 0, 0))
       /\ last.ret = {Mul[Acos[last.pre[last.bufs[2]][3]], Num(2)]}

\* getAxisAngle has returned a full turn for the negated identity.
C13_FullTurn ==
  /\ Done("quat.getAxisAngle")
  /\ last.pre[last.bufs[2]] = Q(0, 0, 0, -1, 1)
  /\ Agree(mem[last.bufs[1]], V3(1, 0, 0))
  /\ last.ret = {Mul[Num(2), PI]}

\* The array x of three numbers has length 1.
IsUnit3(x) ==
  Add[Add[Mul[x[0], x[0]], Mul[x[1], x[1]]], Mul[x[2], x[2]]] = One

\* getAxisAngle called, with the spare vector as out_axis, on the quaternion
\* that the last call (of setAxisAngle) has left in its out.
AxisAngleBack ==
  Run("quat.getAxisAngle", <<"v2", last.bufs[1]>>, <<>>, mem, kind)

\* The last call was setAxisAngle, with a quaternion as out, a unit axis
\* and an angle strictly between 0 and 2 * pi.
SetProperAxisAngle ==
  /\ Done("quat.setAxisAngle")
  /\ last.bufs[1] \in QuatBufs
  /\ IsUnit3(last.pre[last.bufs[2]])
  /\ Lt[Zero, last.scal[1]]
  /\ Lt[last.scal[1], Mul[Num(2), PI]]

\* C14: getAxisAngle of the quaternion that setAxisAngle builds from a unit
\* axis and an angle in (0, 2 * pi) returns that angle and writes that
\* axis.
C14_AxisAngleRoundTrip ==
  SetProperAxisAngle
    => /\ AxisAngleBack.ret = {last.scal[1]}
       /\ AxisAngleBack.h["v2"] = last.pre[last.bufs[2]]

\* setAxisAngle has built the quarter turn about z, (0, 0, sqrt(2)/2,
\* sqrt(2)/2), from which getAxisAngle gives pi/2 back.
C14_Witness ==
  /\ SetProperAxisAngle
  /\ last.pre[last.bufs[2]] = V3(0, 0, 1)
  /\ last.scal[1] = Div[PI, Num(2)]
  /\ mem[last.bufs[1]][2] = Root(Rat(1, 2))
  /\ mem[last.bufs[1]][3] = Root(Rat(1, 2))
  /\ AxisAngleBack.ret = {Div[PI, Num(2)]}

\* The operands a and b of the last call of rotationTo, as they were given.
FromA == last.pre[last.bufs[2]]

ToB == last.pre[last.bufs[3]]

\* The spare vector after transformQuat has turned the first operand of the
\* last call by the quaternion the call has left in out.
Turned ==
  Run("vec3.transformQuat", <<"v2", last.bufs[2], last.bufs[1]>>, <<>>, mem,
      kind).h["v2"]

\* C15: for a unit vector a along an axis, rotationTo(out, a, -a) leaves in
\* out a finite unit quaternion with w = 0 (a half turn) whose axis is
\* perpendicular to a, and transformQuat turns a into -a by it.
C15_RotationToOpposite ==
  (/\ Done("quat.rotationTo")
   /\ FromA \in Axes
   /\ ToB = Negated(FromA))
    => LET q == mem[last.bufs[1]]
       IN /\ \A i \in DOMAIN q : IsNum(q[i])
          /\ Dot4(q, q) = One
          /\ q[3] = Zero
          /\ Add[Add[Mul[q[0], FromA[0]], Mul[q[1], FromA[1]]],
                 Mul[q[2], FromA[2]]] = Zero
          /\ Turned = ToB

\* rotationTo has turned (1,0,0) to (-1,0,0): the cross product with the
\* x axis is zero, so that the axis (0,0,-1) comes from the y axis.
C15_Witness ==
  /\ Done("quat.rotationTo")
  /\ FromA = V3(1, 0, 0)
  /\ ToB = V3(-1, 0, 0)
  /\ mem["tmpvec3"] = V3(0, 0, -1)
  /\ mem[last.bufs[1]] = V4(0, 0, -1, 0)
  /\ Turned = V3(-1, 0, 0)

\* The squared length of the array x of three or four numbers.
SquaredLength(x) ==
  IF 3 \in DOMAIN x THEN Dot4(x, x)
  ELSE Add[Add[Mul[x[0], x[0]], Mul[x[1], x[1]]], Mul[x[2], x[2]]]

\* The array x with every component multiplied by k.
Times(x, k) == [i \in DOMAIN x |-> Mul[x[i], k]]

\* The operand of the last call of normalize, as it was given.
NormA == last.pre[last.bufs[2]]

\* C16: vec3.normalize and vec4.normalize write the zero vector for the
\* zero vector, and for a vector of positive squared length the vector
\* times 1 / sqrt(squared length).
C16_Normalize ==
  (pc = "done" /\ last.op \in {"vec3.normalize", "vec4.normalize"})
    => /\ SquaredLength(NormA) = Zero
            => mem[last.bufs[1]] = [i \in DOMAIN NormA |-> Zero]
       /\ Gt[SquaredLength(NormA), Zero]
            => mem[last.bufs[1]]
                 = Times(NormA, Div[One, Sqrt[SquaredLength(NormA)]])

\* vec3.normalize has written the zero vector over an out that held
\* (5,6,7), for the zero vector.
C16_Witness ==
  /\ Done("vec3.normalize")
  /\ NormA = V3(0, 0, 0)
  /\ last.pre[last.bufs[1]] = V3(5, 6, 7)
  /\ mem[last.bufs[1]] = V3(0, 0, 0)

\* The operands of the last call of transformMat4, as they were given.
MatA == last.pre[last.bufs[2]]

MatM == last.pre[last.bufs[3]]

\* Row i of the matrix m (stored by columns) times the point (a, 1).
Row(m, a, i) ==
  Add[Add[Add[Mul[m[i], a[0]], Mul[m[4 + i], a[1]]], Mul[m[8 + i], a[2]]],
      m[12 + i]]

\* What transformMat4 divides by: the homogeneous coordinate, or 1 when
\* that is 0.
Divisor(m, a) == IF Row(m, a, 3) = Zero THEN One ELSE Row(m, a, 3)

\* C17: vec3.transformMat4 writes the first three rows of m times (a, 1),
\* each divided by w = m[3]*x + m[7]*y + m[11]*z + m[15], or by 1 when w is
\* 0, in which case the components written are finite.
C17_TransformMat4 ==
  Done("vec3.transformMat4")
    => /\ \A i \in 0..2 :
            mem[last.bufs[1]][i] = Div[Row(MatM, MatA, i), Divisor(MatM, MatA)]
       /\ Row(MatM, MatA, 3) = Zero
            => \A i \in 0..2 : IsNum(mem[last.bufs[1]][i])

\* transformMat4 has met w = 0 (the point (-1,0,0), a last row (1,0,0,1))
\* and written the undivided product.
C17_Witness ==
  /\ Done("vec3.transformMat4")
  /\ MatA = V3(-1, 0, 0)
  /\ Row(MatM, MatA, 3) = Zero
  /\ last.bufs[1] = "v2"
  /\ mem["v2"] = V3(-2, 0, 5)

\* The operands of the last call of a function of two arrays (a, b).
ArgA == last.pre[last.bufs[1]]

ArgB == last.pre[last.bufs[2]]

\* The dot product of the arrays x and y of three numbers.
Dot3(x, y) == Add[Add[Mul[x[0], y[0]], Mul[x[1], y[1]]], Mul[x[2], y[2]]]

\* The number x brought into [-1, 1].
Clamped(x) == Min2[Max2[x, Num(-1)], One]

\* C18: vec3.angle returns pi/2 when a or b is the zero vector, and
\* otherwise the arc cosine of dot(a, b) / (|a| |b|) brought into [-1, 1].
C18_Angle ==
  Done("vec3.angle")
    => IF ArgA = V3(0, 0, 0) \/ ArgB = V3(0, 0, 0)
       THEN last.ret = {Div[PI, Num(2)]}
       ELSE last.ret
              = {Acos[Clamped(Div[Dot3(ArgA, ArgB),
                     Sqrt[Mul[Dot3(ArgA, ArgA), Dot3(ArgB, ArgB)]]])]}

\* vec3.angle has returned a right angle for the zero vector and (1,2,2).
C18_Witness ==
  /\ Done("vec3.angle")
  /\ ArgA = V3(0, 0, 0)
  /\ ArgB = V3(1, 2, 2)
  /\ last.ret = {Div[PI, Num(2)]}

\* |x - y| <= 0.000001 * max(1, |x|, |y|)
Close(x, y) ==
  Le[Abs[Sub[x, y]], Mul[Rat(1, 1000000), Max2[Max2[One, Abs[x]], Abs[y]]]]

\* The last call was vec3.equals or vec4.equals.
DoneEquals == pc = "done" /\ last.op \in {"vec3.equals", "vec4.equals"}

\* exactEquals of the module of the last call, on the operands of that call,
\* and equals on the operands in the other order.
ExactOp == IF last.op = "vec3.equals" THEN "vec3.exactEquals"
           ELSE "vec4.exactEquals"

Exactly == Run(ExactOp, last.bufs, <<>>, last.pre, kind).ret

Swapped ==
  Run(last.op, <<last.bufs[2], last.bufs[1]>>, <<>>, last.pre, kind).ret

\* Every component of the array x is a finite number; none is NaN; every
\* one is an integer below a million in size.
AllFinite(x) == \A i \in DOMAIN x : IsNum(x[i])

NoNaN(x) == \A i \in DOMAIN x : x[i] # NonFinite

Small(x) ==
  \A i \in DOMAIN x :
    IsRat(x[i]) /\ x[i][4] = 1 /\ Lt[Abs[x[i]], Num(1000000)]

\* C19 (as stated; a = b with an infinite component refutes it): equals is
\* the test |a_i - b_i| <= 0.000001 * max(1, |a_i|, |b_i|) of every
\* component, so that for operands without NaN exactEquals implies equals.
C19_ExactImpliesEqualsNoNaN ==
  (DoneEquals /\ NoNaN(ArgA) /\ NoNaN(ArgB))
    => /\ last.ret = {\A i \in DOMAIN ArgA : Close(ArgA[i], ArgB[i])}
       /\ Exactly = {TRUE} => last.ret = {TRUE}

\* C19: vec3.equals and vec4.equals are the test |a_i - b_i| <= 0.000001 *
\* max(1, |a_i|, |b_i|) of every component on its own; for finite operands
\* exactEquals implies equals; equals gives the same with its operands
\* exchanged; and vectors of integers of magnitude below 1,000,000 are
\* equals only if they are exactEquals.
C19_Equals ==
  DoneEquals
    => /\ last.ret = {\A i \in DOMAIN ArgA : Close(ArgA[i], ArgB[i])}
       /\ (AllFinite(ArgA) /\ AllFinite(ArgB) /\ Exactly = {TRUE})
            => last.ret = {TRUE}
       /\ Swapped = last.ret
       /\ (Small(ArgA) /\ Small(ArgB) /\ last.ret = {TRUE})
            => Exactly = {TRUE}

\* vec3.equals has found 1000000 and 999999 equal, which no absolute
\* tolerance of 0.000001 does.
C19_Witness ==
  /\ Done("vec3.equals")
  /\ ArgA = V3(1000000, 0, 0)
  /\ ArgB = V3(999999, 0, 0)
  /\ last.ret = {TRUE}
  /\ Exactly = {FALSE}

\* The core function that a function of an enforce module stands before.
CoreOf(op) ==
  CASE op = "vec3_64e.add" -> "vec3.add"
    [] op = "vec3_64e.dot" -> "vec3.dot"
    [] op = "vec3_64e.transformQuat" -> "vec3.transformQuat"
    [] op = "quat_32e.getAxisAngle" -> "quat.getAxisAngle"
    [] op = "quat_32e.fromEuler" -> "quat.fromEuler"
    [] op = "quat_32e.slerp" -> "quat.slerp"

\* The last call was of an enforce function, on arrays of its class only.
Accepted ==
  /\ pc = "done"
  /\ last.op \in EnforceOps
  /\ \A b \in Passed : kind[b] = Required(last.op)

\* The core function called on the arguments of the last call, in their
\* order, from the heap the call was made in.
Core == Run(CoreOf(last.op), last.bufs, last.scal, last.pre, kind)

\* C20: an enforce function given arrays of its class leaves the heap as
\* the core function of its name does on the same arguments in the same
\* order, returns what it returns, and throws when it throws.
C20_EnforceDelegates ==
  Accepted
    => /\ mem = Core.h
       /\ last.ret = Core.ret
       /\ last.threw = Core.threw

\* quat_32e.slerp has interpolated, at t = 1, from (1,0,0,0) to the
\* rotation by 2 * theta0 about x.
C20_Witness ==
  /\ Accepted
  /\ last.op = "quat_32e.slerp"
  /\ last.scal = <<One>>
  /\ ~last.threw
  /\ mem[last.bufs[1]] = Q(3, 0, 0, 4, 5)
  /\ mem[last.bufs[1]] # last.pre[last.bufs[1]]


\* The array x of four numbers has length 1.
IsUnit4(x) == Dot4(x, x) = One

\* conjugate called on the buffers the last call (of invert) was made on,
\* from the heap it was made in.
Conjugated ==
  Run("quat.conjugate", last.bufs, <<>>, last.pre, kind).h[last.bufs[1]]

\* C21: for a quaternion of length 1, invert leaves in out what conjugate
\* leaves there.
C21_InvertIsConjugate ==
  (Done("quat.invert") /\ IsUnit4(OpA)) =>
    /\ ~last.threw
    /\ Out = Conjugated

\* invert has turned (3,0,0,4)/5 into (-3,0,0,4)/5, in a separate out.
C21_Witness ==
  /\ Done("quat.invert")
  /\ OpA = Q(3, 0, 0, 4, 5)
  /\ last.bufs[1] # last.bufs[2]
  /\ Out = Q(-3, 0, 0, 4, 5)
  /\ Out = Conjugated

\* The functions that make a quaternion of Euler angles.
EulerOps == {"quat.fromEuler", "quat_32e.fromEuler"}

\* The last call (of fromEuler) made again with the order o, from the heap
\* it was made in.
WithOrder(o) ==
  Run(last.op, last.bufs, SubSeq(last.scal, 1, 3) \o <<o>>, last.pre, kind)

\* C22: fromEuler called without an order, or with the order undefined,
\* directly or through an enforce wrapper, leaves in every buffer what the
\* call with the order ZYX leaves, and throws when that call throws.
C22_DefaultOrder ==
  (pc = "done" /\ last.op \in EulerOps /\ OrderGiven = "undefined") =>
    /\ mem = WithOrder("ZYX").h
    /\ last.threw = WithOrder("ZYX").threw

\* fromEuler called without an order on (180, 180, 0) has written
\* (0,0,-1,0), where the order XYZ writes (0,0,1,0).
C22_Witness ==
  /\ Done("quat.fromEuler")
  /\ last.scal = <<Num(180), Num(180), Zero>>
  /\ ~last.threw
  /\ Out = Q(0, 0, -1, 0, 1)
  /\ WithOrder("XYZ").h[last.bufs[1]] = Q(0, 0, 1, 0, 1)

\* C23 (as stated; the draws 0 and 0 refute it): vec3.random writes a
\* vector of squared length 1 whatever Math.random returns.
C23_RandomIsUnit ==
  Done("vec3.random") => ~last.threw /\ SquaredLength(mem["v0"]) = One

\* What vec3.random does write: (cos r, sin r, z) with r = 2 pi random1 and
\* z = 2 random2 - 1, of squared length 1 + z * z.
C23_RandomLength ==
  Done("vec3.random") =>
    LET z == Sub[Mul[last.scal[2], Num(2)], One]
    IN /\ ~last.threw
       /\ mem["v0"][2] = z
       /\ SquaredLength(mem["v0"]) = Add[One, Mul[z, z]]

\* vec3.random has written (1, 0, -1), of squared length 2, on the draws 0
\* and 0.
C23_Witness ==
  /\ Done("vec3.random")
  /\ last.scal = <<Zero, Zero>>
  /\ mem["v0"] = V3(1, 0, -1)

\* The functions that turn about the axes X, Y, Z, and the angle, in
\* degrees, that the last call (of fromEuler) gave for each.
RotateOp(axis) ==
  CASE axis = "X" -> "quat.rotateX"
    [] axis = "Y" -> "quat.rotateY"
    [] axis = "Z" -> "quat.rotateZ"

DegreesOf(axis) ==
  CASE axis = "X" -> last.scal[1]
    [] axis = "Y" -> last.scal[2]
    [] axis = "Z" -> last.scal[3]

\* The axes of an order, first to last.
AxesOf(order) ==
  CASE order = "XYZ" -> <<"X", "Y", "Z">>
    [] order = "XZY" -> <<"X", "Z", "Y">>
    [] order = "YXZ" -> <<"Y", "X", "Z">>
    [] order = "YZX" -> <<"Y", "Z", "X">>
    [] order = "ZXY" -> <<"Z", "X", "Y">>
    [] order = "ZYX" -> <<"Z", "Y", "X">>

Radians(deg) == Div[Mul[deg, PI], Num(180)]

\* The heap h after the quaternion in q4 has been turned about the axis by
\* the angle the last call gave for it.
Turn(h, axis) ==
  Run(RotateOp(axis), <<"q4", "q4">>, <<Radians(DegreesOf(axis))>>, h, kind).h

\* The identity turned about the three axes of the order, first to last:
\* the product qA o qB o qC of the elementary quaternions.
Composed(order) ==
  Turn(Turn(Turn(Load(last.pre, "q4" :> QE), AxesOf(order)[1]),
            AxesOf(order)[2]), AxesOf(order)[3])["q4"]

\* What fromEuler writes for the angles x, y, z and the order o.
Euler(x, y, z, o) ==
  Run("quat.fromEuler", <<"q4">>, <<x, y, z, o>>, InitMem, InitKind).h["q4"]

\* Angles of which two or three are half a turn: on one of them two orders
\* differ, if they differ at all.
HalfTurns ==
  {<<Num(180), Num(180), Zero>>, <<Num(180), Zero, Num(180)>>,
   <<Zero, Num(180), Num(180)>>, <<Num(180), Num(180), Num(180)>>}

\* C24: for each of the six orders ABC, fromEuler leaves in out the identity
\* turned by rotateA, then rotateB, then rotateC, by the angles of the axes
\* in radians; and for any other order there are angles for which
\* fromEuler writes something else.
C24_EulerIsProduct ==
  (Done("quat.fromEuler") /\ OrderGiven \in AngleOrder) =>
    /\ ~last.threw
    /\ Out = Composed(OrderGiven)
    /\ last.scal[1] = Num(180) /\ last.scal[2] = Num(180)
         /\ last.scal[3] = Num(180) =>
           \A o \in AngleOrder \ {OrderGiven} :
             \E a \in HalfTurns :
               Euler(a[1], a[2], a[3], o) # Euler(a[1], a[2], a[3], OrderGiven)

\* fromEuler with the order XYZ has written, for a quarter turn about
\* each axis, the quaternion (sqrt(2)/2, 0, sqrt(2)/2, 0) of rotateX,
\* rotateY, rotateZ, which is not what the order ZYX gives.
C24_Witness ==
  /\ Done("quat.fromEuler")
  /\ OrderGiven = "XYZ"
  /\ last.scal[1] = Num(90) /\ last.scal[2] = Num(90) /\ last.scal[3] = Num(90)
  /\ Out = Composed("XYZ")
  /\ Out = Arr(<<Root(Rat(1, 2)), Zero, Root(Rat(1, 2)), Zero>>)
  /\ Out # Composed("ZYX")

\* The first three components of the array x.
Xyz(x) == [i \in 0..2 |-> x[i]]

\* The cross product and the sum of arrays of three numbers.
Cross3(x, y) ==
  Arr(<<Sub[Mul[x[1], y[2]], Mul[x[2], y[1]]],
        Sub[Mul[x[2], y[0]], Mul[x[0], y[2]]],
        Sub[Mul[x[0], y[1]], Mul[x[1], y[0]]]>>)

Plus3(x, y) == [i \in 0..2 |-> Add[x[i], y[i]]]

\* v + 2 w (u x v) + 2 (u x (u x v)) for the quaternion q = (u, w).
DoubleCross(v, q) ==
  Plus3(v, Plus3(Times(Cross3(Xyz(q), v), Mul[Num(2), q[3]]),
                 Times(Cross3(Xyz(q), Cross3(Xyz(q), v)), Num(2))))

\* The vector (v, w) of four numbers.
With4(v, w) == Arr(<<v[0], v[1], v[2], w>>)

\* What vec4.transformQuat leaves in a separate out for the vector (v, 7)
\* and the quaternion q.
Vec4Turned(v, q) ==
  Run("vec4.transformQuat", <<"q2", "q3", "q4">>, <<>>,
      Load(InitMem, In2("q3", With4(v, Num(7)), "q4", q)), InitKind).h["q2"]

\* The product x o y that quat.multiply leaves in a separate out.
Hamilton(x, y) ==
  Run("quat.multiply", <<"q2", "q3", "q4">>, <<>>,
      Load(InitMem, In2("q3", x, "q4", y)), InitKind).h["q2"]

\* The conjugate of the quaternion q.
Conj(q) == Arr(<<Neg[q[0]], Neg[q[1]], Neg[q[2]], q[3]>>)

\* C25: vec3.transformQuat writes v + 2 w (u x v) + 2 (u x (u x v)); for a
\* quaternion q of length 1 that is the x, y, z that vec4.transformQuat
\* writes, and for a q of another length the two differ on every vector but
\* the zero vector.  vec4.transformQuat writes the vector part of
\* q o (v,0) o conjugate(q) and copies a[3] to out[3].
C25_TransformQuat ==
  /\ Done("vec3.transformQuat") =>
       /\ ~last.threw
       /\ Xyz(Out) = DoubleCross(OpA, OpB)
       /\ IsUnit4(OpB) => Xyz(Vec4Turned(OpA, OpB)) = Xyz(Out)
       /\ (~IsUnit4(OpB) /\ OpA # V3(0, 0, 0)) =>
            Xyz(Vec4Turned(OpA, OpB)) # Xyz(Out)
       /\ Vec4Turned(OpA, OpB)[3] = Num(7)
  /\ Done("vec4.transformQuat") =>
       /\ ~last.threw
       /\ Xyz(Out) =
            Xyz(Hamilton(Hamilton(OpB, With4(OpA, Zero)), Conj(OpB)))
       /\ Out[3] = OpA[3]

\* vec3.transformQuat has turned (3,4,0)/5 by a third of a turn about
\* (1,1,1) into (0,3,4)/5, as vec4.transformQuat does.
C25_Witness ==
  /\ Done("vec3.transformQuat")
  /\ OpA = P3(3, 4, 0, 5)
  /\ OpB = Q(1, 1, 1, 1, 2)
  /\ last.bufs[1] = "v2"
  /\ Out = P3(0, 3, 4, 5)
  /\ Xyz(Vec4Turned(OpA, OpB)) = Out

\* On the quaternion (1,2,3,4), of squared length 30, the two differ.
C25_NotUnit ==
  /\ Done("vec3.transformQuat")
  /\ OpB = Q(1, 2, 3, 4, 1)
  /\ OpA = P3(1, 0, 0, 1)
  /\ Xyz(Vec4Turned(OpA, OpB)) # Xyz(Out)

\* The sum of the arrays x and y of four numbers.
Plus4(x, y) == [i \in 0..3 |-> Add[x[i], y[i]]]

\* The operand that slerp blends a with: b, or -b when dot(a, b) < 0.
Nearer(a, b) == IF Lt[Dot4(a, b), Zero] THEN Negated(b) ELSE b

\* The weights of slerp at t for operands whose dot product is c in size:
\* linear within 0.000001 of parallel, sine ratios otherwise.
Scale0(c, t) ==
  IF Le[Sub[One, c], Rat(1, 1000000)] THEN Sub[One, t]
  ELSE Div[Sin[Mul[Sub[One, t], Acos[c]]], Sin[Acos[c]]]

Scale1(c, t) ==
  IF Le[Sub[One, c], Rat(1, 1000000)] THEN t
  ELSE Div[Sin[Mul[t, Acos[c]]], Sin[Acos[c]]]

\* slerp called on a and -b, from the heap of the last call with -b in a
\* spare buffer, and a separate out.
SlerpToNegated ==
  Run("quat.slerp", <<"q4", last.bufs[2], "q3">>, last.scal,
      Load(last.pre, "q3" :> Negated(SlerpB)), kind).h["q4"]

\* C26: slerp writes scale0 * a + scale1 * b', where b' is -b when
\* dot(a, b) < 0 and b otherwise, and the weights are 1 - t and t when
\* 1 - |dot(a, b)| <= 0.000001 and sin((1-t) omega) / sin(omega) and
\* sin(t omega) / sin(omega), omega = acos |dot(a, b)|, otherwise; so that
\* slerp to -b writes what slerp to b writes whenever dot(a, b) is not 0.
C26_Slerp ==
  Done("quat.slerp") =>
    LET c == Abs[Dot4(SlerpA, SlerpB)]
    IN /\ ~last.threw
       /\ Out = Plus4(Times(SlerpA, Scale0(c, last.scal[1])),
                      Times(Nearer(SlerpA, SlerpB), Scale1(c, last.scal[1])))
       /\ Dot4(SlerpA, SlerpB) # Zero => SlerpToNegated = Out

\* slerp from (-3,0,0,-4)/5 to (-3,0,0,4)/5, whose dot product is -7/25,
\* has written at t = 1/2, with sine-ratio weights, the quaternion
\* (0,0,0,-1) that lies between (-3,0,0,-4)/5 and (3,0,0,-4)/5.
C26_Witness ==
  /\ Done("quat.slerp")
  /\ SlerpA = Q(-3, 0, 0, -4, 5)
  /\ SlerpB = Q(-3, 0, 0, 4, 5)
  /\ last.scal = <<Rat(1, 2)>>
  /\ ~Linear(SlerpA, SlerpB)
  /\ ~Aliased
  /\ Out = Q(0, 0, 0, -1, 1)
  /\ SlerpToNegated = Out

\* What slerp leaves in a separate out for the operands x and y at t.
Slerped(x, y, t) ==
  Run("quat.slerp", <<"q2", "q3", "q4">>, <<t>>,
      Load(InitMem, In2("q3", x, "q4", y)), InitKind).h["q2"]

\* The control points a, b, c, d of the last call (of sqlerp), as they were
\* given, and its t.
SqA == last.pre[last.bufs[2]]

SqB == last.pre[last.bufs[3]]

SqC == last.pre[last.bufs[4]]

SqD == last.pre[last.bufs[5]]

SqT == last.scal[1]

\* The last call (of sqlerp) made again with x and y for b and c.
SqWith(x, y) ==
  Run("quat.sqlerp", last.bufs, last.scal,
      Load(last.pre, In2(last.bufs[3], x, last.bufs[4], y)), kind)
    .h[last.bufs[1]]

\* C27: sqlerp leaves in out the slerp, at 2t(1-t), of the slerp of a and d
\* at t and the slerp of b and c at t; at t = 0 that is a, at t = 1 it is
\* the slerp of a and d at 1, and at both ends b and c can be anything.
C27_Sqlerp ==
  Done("quat.sqlerp") =>
    /\ ~last.threw
    /\ Out = Slerped(Slerped(SqA, SqD, SqT), Slerped(SqB, SqC, SqT),
                     Mul[Mul[Num(2), SqT], Sub[One, SqT]])
    /\ SqT = Zero => Out = SqA
    /\ SqT = One => Out = Slerped(SqA, SqD, One)
    /\ (SqT \in {Zero, One} /\ ~Aliased) =>
         \A x \in SqVals, y \in SqVals : SqWith(x, y) = Out

\* sqlerp at t = 1 from a = (0,0,0,1) to d = (-3,0,0,-4)/5, with other
\* control points between, has written -d = (3,0,0,4)/5.
C27_Witness ==
  /\ Done("quat.sqlerp")
  /\ SqT = One
  /\ SqA = QE
  /\ SqB = QI
  /\ SqC = Q(3, 0, 0, 4, 5)
  /\ SqD = Q(-3, 0, 0, -4, 5)
  /\ ~Aliased
  /\ Out = Q(3, 0, 0, 4, 5)

\* sqlerp at t = 1/2 has blended the two inner results, which differ.
C27_Middle ==
  /\ Done("quat.sqlerp")
  /\ SqT = Rat(1, 2)
  /\ Slerped(SqA, SqD, SqT) # Slerped(SqB, SqC, SqT)
  /\ Out # Slerped(SqA, SqD, SqT)

\* The vector part of the array x of four numbers is (0,0,0).
Scalar(x) == Xyz(x) = V3(0, 0, 0)

\* exp(b * ln(a)) by three separate calls: ln into a spare buffer, scale
\* by b, exp into another.
ExpOfScaledLn(a, b) ==
  LET h1 == Run("quat.ln", <<"q3", "q4">>, <<>>, Load(InitMem, "q4" :> a),
                InitKind).h
      h2 == Run("vec4.scale", <<"q2", "q3">>, <<b>>, h1, InitKind).h
  IN Run("quat.exp", <<"q1", "q2">>, <<>>, h2, InitKind).h["q1"]

\* C28: on a quaternion whose vector part is (0,0,0), ln writes the vector
\* part (0,0,0) and the scalar part log|w|, and exp writes the vector part
\* (0,0,0) and the scalar part e^w: neither divides by the length 0 of the
\* vector part.  pow leaves in out, also when out is a, what exp leaves for
\* b times what ln leaves for a, and pow of (0,0,0,1) is (0,0,0,1)
\* whatever b is.
C28_LnExpPow ==
  /\ (Done("quat.ln") /\ Scalar(OpA)) =>
       /\ ~last.threw
       /\ Scalar(Out)
       /\ Out[3] = Log[Abs[OpA[3]]]
  /\ (Done("quat.exp") /\ Scalar(OpA)) =>
       /\ ~last.threw
       /\ Scalar(Out)
       /\ Out[3] = Exp[OpA[3]]
  /\ Done("quat.pow") =>
       /\ ~last.threw
       /\ Out = ExpOfScaledLn(OpA, last.scal[1])
       /\ OpA = QE => Out = QE

\* pow has squared i in place: ln gives (pi/2,0,0,0), and exp of
\* (pi,0,0,0) is (0,0,0,-1).
C28_Witness ==
  /\ Done("quat.pow")
  /\ OpA = QI
  /\ last.scal = <<Num(2)>>
  /\ last.bufs[1] = last.bufs[2]
  /\ Out = Q(0, 0, 0, -1, 1)

\* exp has written (0,0,0,e) for (0,0,0,1).
C28_ExpOfScalar ==
  /\ Done("quat.exp")
  /\ OpA = QE
  /\ Out = Arr(<<Zero, Zero, Zero, Exp[One]>>)

\* ln has written (0,0,0,0) for (0,0,0,-1).
C28_LnOfScalar ==
  /\ Done("quat.ln")
  /\ OpA = Negated(QE)
  /\ Out = V4(0, 0, 0, 0)

\* pow has written (0,0,0,1) for (0,0,0,1) and the power 1/2.
C28_PowOfIdentity ==
  /\ Done("quat.pow")
  /\ OpA = QE
  /\ last.scal = <<Rat(1, 2)>>
  /\ Out = QE

\* C29: invert writes (0,0,0,0) for (0,0,0,0), and for a quaternion q of
\* non-zero squared length what it writes gives (0,0,0,1) when multiplied
\* with q, on either side.
C29_Invert ==
  Done("quat.invert") =>
    /\ ~last.threw
    /\ OpA = V4(0, 0, 0, 0) => Out = V4(0, 0, 0, 0)
    /\ Dot4(OpA, OpA) # Zero =>
         /\ Hamilton(OpA, Out) = QE
         /\ Hamilton(Out, OpA) = QE

\* invert has written (-1,-2,-3,4)/30 for (1,2,3,4), in place.
C29_Witness ==
  /\ Done("quat.invert")
  /\ OpA = Q(1, 2, 3, 4, 1)
  /\ last.bufs[1] = last.bufs[2]
  /\ Out = Q(-1, -2, -3, 4, 30)
  /\ Hamilton(OpA, Out) = QE

\* invert has written (0,0,0,0) for (0,0,0,0).
C29_Zero ==
  /\ Done("quat.invert")
  /\ OpA = V4(0, 0, 0, 0)
  /\ Out = V4(0, 0, 0, 0)

\* The entry of m at row r, column c: the matrix is stored by columns.
Entry(m, r, c) == m[c * 4 + r]

\* Row r of m times the vector (x, y, z, w).
Row4(m, a, r) ==
  Add[Add[Add[Mul[Entry(m, r, 0), a[0]], Mul[Entry(m, r, 1), a[1]]],
          Mul[Entry(m, r, 2), a[2]]],
      Mul[Entry(m, r, 3), a[3]]]

\* m is the identity with a translation in entries 12, 13, 14.
IsTranslation(m) ==
  \A r \in 0..3 :
    /\ \A c \in 0..2 : Entry(m, r, c) = IF r = c THEN One ELSE Zero
    /\ Entry(m, 3, 3) = One

\* C30: the transformMat4 of vec3 and of vec4 read the entry of row r and
\* column c at m[c*4+r]. vec4.transformMat4 writes each row of m times
\* (x, y, z, w) and divides none of them by the resulting w. For the identity
\* with entries 12, 13, 14 set to (tx, ty, tz), vec3.transformMat4 writes
\* (x+tx, y+ty, z+tz) and vec4.transformMat4 writes
\* (x+w*tx, y+w*ty, z+w*tz, w).
C30_ColumnMajor ==
  /\ Done("vec4.transformMat4")
       => /\ \A r \in 0..3 : Out[r] = Row4(MatM, MatA, r)
          /\ IsTranslation(MatM)
               => /\ \A i \in 0..2 :
                       Out[i] = Add[MatA[i], Mul[MatA[3], MatM[12 + i]]]
                  /\ Out[3] = MatA[3]
  /\ (Done("vec3.transformMat4") /\ IsTranslation(MatM))
       => \A i \in 0..2 : Out[i] = Add[MatA[i], MatM[12 + i]]

\* vec4.transformMat4 has moved (1,2,3,4)/1 by 4 times the translation
\* (1,2,3), into an out that is neither operand.
C30_Witness ==
  /\ Done("vec4.transformMat4")
  /\ IsTranslation(MatM)
  /\ <<MatM[12], MatM[13], MatM[14]>> = <<One, Num(2), Num(3)>>
  /\ MatA = Q(1, 2, 3, 4, 1)
  /\ last.bufs[1] = "q2"
  /\ Out = V4(5, 10, 15, 4)

\* vec3.transformMat4 has moved (1,2,2) by the translation (1,2,3).
C30_Vec3 ==
  /\ Done("vec3.transformMat4")
  /\ IsTranslation(MatM)
  /\ <<MatM[12], MatM[13], MatM[14]>> = <<One, Num(2), Num(3)>>
  /\ MatA = V3(1, 2, 2)
  /\ Out = V3(2, 4, 5)

\* vec4.transformMat4 has left a resulting w that is neither 0 nor 1
\* undivided: the first component is not the quotient by w.
C30_Undivided ==
  /\ Done("vec4.transformMat4")
  /\ Out[3] \notin {Zero, One}
  /\ Out[0] = Row4(MatM, MatA, 0)
  /\ Out[0] # Div[Row4(MatM, MatA, 0), Out[3]]
============================================================================
